---------------------------- MODULE Spec2Model ----------------------------
(***************************************************************************)
(* A model of the raycasting maze: the World (tile grid and its point and  *)
(* circle collision queries), the Ray (grid walk of seekCollision with     *)
(* nearestGrid and determineFace) and the Camera (move with wall sliding). *)
(*                                                                         *)
(* Numbers.  The program computes in IEEE doubles; the model computes in   *)
(* exact fixed point: a coordinate v of the program is the integer         *)
(* v * Scale.  Scale is chosen so that SLIDE (0.0001 tile) is a whole      *)
(* number of units and every grid crossing of the modelled headings is a   *)
(* whole number of units as well.  Rounding noise of the doubles (a few    *)
(* units in the last place) is outside the model.                          *)
(*                                                                         *)
(* Headings.  A heading is a record [dx, dy, sc, ss, zero]: (dx, dy) is    *)
(* the direction of travel, so tan(theta) = dy / dx; sc and ss are         *)
(* Math.sign(Math.cos(theta)) and Math.sign(Math.sin(theta)) as the        *)
(* doubles give them; zero says theta === 0.  For theta = 0 the doubles    *)
(* are exact (sin 0, cos 1, tan 0).  For Math.PI / 2, Math.PI and          *)
(* 3 * Math.PI / 2 they are not: the cosine or sine that would be 0 is of  *)
(* magnitude 1e-16 with a definite sign, and the tangent is of magnitude   *)
(* 1e16 or 1e-16.  The model keeps those signs, places a crossing that is  *)
(* 1e15 tiles away "far" (beyond every draw distance), and drops the       *)
(* sub-ulp drift of the other coordinate.                                  *)
(***************************************************************************)
EXTENDS Integers, Sequences, FiniteSets, TLC

VARIABLES
    source,     \* the argument of the World constructor, as its caller holds it
    built,      \* what the World constructor did (<<>> before the call)
    tilemap,    \* World._tilemap: the rows of the grid, 0 = empty, 1 = wall
    ray,        \* the Ray under test: [x, y, theta, dist]
    castOut,    \* what the calls of seekCollision returned, in order
    query,      \* what the last call of a query returned (<<>> before a call)
    cam,        \* Camera._cam_ray: [x, y]
    draw,       \* Camera._draw_ray: [x, y]
    mv,         \* Camera.move: its position in the code and its locals
    moves,      \* number of move calls made so far
    frame       \* Camera._keymap, the headings of its two rays, and Camera.update

vars == <<source, built, tilemap, ray, castOut, query, cam, draw, mv, moves, frame>>

-----------------------------------------------------------------------------
(* Fixed point *)

\* Units per tile.  SLIDE = 0.0001 tile = 2 units, so that a crossing of a
\* heading of slope 2 or 1/2 from a position reached by sliding is whole.
Scale == 2 * 10000

\* A quarter tile: the lattice of the origins the ray checks draw from is
\* half a tile, and the crossings of the modelled headings from such an
\* origin are multiples of a quarter tile.
Quarter == Scale \div 4

Abs(v) == IF v < 0 THEN -v ELSE v

\* Math.sign
Sign(v) == IF v > 0 THEN 1 ELSE IF v < 0 THEN -1 ELSE 0

\* Math.floor, Math.ceil and Number.isInteger of a fixed-point number
Floor(v) == (v \div Scale) * Scale

Ceil(v) == -Floor(-v)

IsInteger(v) == v % Scale = 0

\* JavaScript's null and a value, as a sequence of length 0 or 1
Null == <<>>

Some(v) == <<v>>

\* n * a * a for 0 <= a < 10^6, as three limbs of base 1000 (most significant
\* first): the squares of distances do not fit 32 bits.
Sq3(a, n) ==
    LET a1 == a \div 1000
        a0 == a % 1000
        c0 == n * a0 * a0
        c1 == 2 * n * a1 * a0 + (c0 \div 1000)
        c2 == n * a1 * a1 + (c1 \div 1000)
    IN  <<c2, c1 % 1000, c0 % 1000>>

\* u < v for two such numbers
Lt3(u, v) ==
    \/ u[1] < v[1]
    \/ u[1] = v[1] /\ u[2] < v[2]
    \/ u[1] = v[1] /\ u[2] = v[2] /\ u[3] < v[3]

\* Math.hypot(a, b) < r.  When |a| >= r or |b| >= r the answer is false
\* without squaring; otherwise the squares fit.
HypotLess(a, b, r) ==
    IF Abs(a) >= r \/ Abs(b) >= r THEN FALSE ELSE a * a + b * b < r * r

-----------------------------------------------------------------------------
(* World *)

\* The 3 x 3 room of the specification's scenarios.
GridRoom3 == << <<1, 1, 1>>,
                <<1, 0, 1>>,
                <<1, 1, 1>> >>

\* A 5 x 5 room with a pillar in the middle.
GridRoom5 == << <<1, 1, 1, 1, 1>>,
                <<1, 0, 0, 0, 1>>,
                <<1, 0, 1, 0, 1>>,
                <<1, 0, 0, 0, 1>>,
                <<1, 1, 1, 1, 1>> >>

\* A 4 x 4 grid with open edges: rays leave it; walls touch at corners.
GridOpen4 == << <<0, 0, 0, 1>>,
                <<0, 0, 1, 0>>,
                <<1, 0, 0, 0>>,
                <<1, 1, 0, 0>> >>

Grids == {GridRoom3, GridRoom5, GridOpen4}

Rows(g) == Len(g)

Cols(g) == Len(g[1])

\* this._tilemap[i][j] for indices inside the grid
Tile(g, i, j) == g[i + 1][j + 1]

\* What a caller can pass for theTilemap: null, something that is no array
\* (a number), or an array of rows
NullArg == [kind |-> "null", rows |-> <<>>]

NumberArg == [kind |-> "number", rows |-> <<>>]

ArrayArg(rows) == [kind |-> "array", rows |-> rows]

\* World constructor: it throws, or this._tilemap is a copy, element by
\* element, of the rows passed
World(theTilemap) ==
    IF theTilemap.kind = "null"
    THEN [threw |-> TRUE, tilemap |-> <<>>]
    ELSE IF theTilemap.kind # "array"
    THEN [threw |-> TRUE, tilemap |-> <<>>]
    ELSE [threw |-> FALSE,
          tilemap |-> [i \in 1 .. Len(theTilemap.rows) |->
                          [j \in 1 .. Len(theTilemap.rows[i]) |->
                              theTilemap.rows[i][j]]]]

\* this._tilemap is the caller's array itself
AliasedKept == TRUE

\* this._tilemap is the caller's array itself: no, the constructor copies
Aliased == FALSE

\* checkCollision with the row and the column index exchanged
checkCollisionTransposed(g, theX, theY) ==
    /\ theX >= 0
    /\ theY >= 0
    /\ theY < Rows(g) * Scale
    /\ theX < Cols(g) * Scale
    /\ Tile(g, theX \div Scale, theY \div Scale) = 1

\* World.checkCollision(theX, theY)
checkCollision(g, theX, theY) ==
    /\ theX >= 0
    /\ theY >= 0
    /\ theY < Rows(g) * Scale
    /\ theX < Cols(g) * Scale
    /\ Tile(g, theY \div Scale, theX \div Scale) = 1

\* The tests of one tile without the first, of a centre within the tile
circHitsTileEdgesOnly(i, j, theX, theY, theRad) ==
    LET x == j * Scale
        y == i * Scale
        x2 == x + Scale
        y2 == y + Scale
        between_x == x <= theX /\ theX <= x2
        between_y == y <= theY /\ theY <= y2
    IN  \/ between_x /\ (Abs(y - theY) < theRad \/ Abs(theY - y2) < theRad)
        \/ between_y /\ (Abs(x - theX) < theRad \/ Abs(theX - x2) < theRad)
        \/ HypotLess(x - theX, y - theY, theRad)
        \/ HypotLess(x - theX, y2 - theY, theRad)
        \/ HypotLess(x2 - theX, y - theY, theRad)
        \/ HypotLess(x2 - theX, y2 - theY, theRad)

\* The body of World.checkCollCirc's loops for the wall tile of row i,
\* column j: whether it sets rv (and clears flag).
circHitsTile(i, j, theX, theY, theRad) ==
    LET x == j * Scale
        y == i * Scale
        x2 == x + Scale
        y2 == y + Scale
        between_x == x <= theX /\ theX <= x2
        between_y == y <= theY /\ theY <= y2
        near1 == HypotLess(x - theX, y - theY, theRad)
        near2 == HypotLess(x - theX, y2 - theY, theRad)
        near3 == HypotLess(x2 - theX, y - theY, theRad)
        near4 == HypotLess(x2 - theX, y2 - theY, theRad)
    IN  IF between_x /\ between_y
        THEN TRUE
        ELSE IF \/ between_x /\ (Abs(y - theY) < theRad \/ Abs(theY - y2) < theRad)
                \/ between_y /\ (Abs(x - theX) < theRad \/ Abs(theX - x2) < theRad)
        THEN TRUE
        ELSE near1 \/ near2 \/ near3 \/ near4

\* World.checkCollCirc's scan from row i, column j: row-major, leaving at the
\* first tile that sets rv.
RECURSIVE circScan(_, _, _, _, _, _)
circScan(g, i, j, theX, theY, theRad) ==
    IF i >= Rows(g) THEN FALSE
    ELSE IF j >= Len(g[i + 1]) THEN circScan(g, i + 1, 0, theX, theY, theRad)
    ELSE IF Tile(g, i, j) # 0 /\ circHitsTile(i, j, theX, theY, theRad) THEN TRUE
    ELSE circScan(g, i, j + 1, theX, theY, theRad)

\* checkCollCirc answering false for every centre outside the grid
checkCollCircInsideOnly(g, theX, theY, theRad) ==
    /\ theX >= 0 /\ theY >= 0
    /\ theX < Cols(g) * Scale /\ theY < Rows(g) * Scale
    /\ circScan(g, 0, 0, theX, theY, theRad)

\* checkCollCirc giving up after the first wall tile it meets
RECURSIVE circScanFirstWall(_, _, _, _, _, _)
circScanFirstWall(g, i, j, theX, theY, theRad) ==
    IF i >= Rows(g) THEN FALSE
    ELSE IF j >= Len(g[i + 1]) THEN circScanFirstWall(g, i + 1, 0, theX, theY, theRad)
    ELSE IF Tile(g, i, j) # 0 THEN circHitsTile(i, j, theX, theY, theRad)
    ELSE circScanFirstWall(g, i, j + 1, theX, theY, theRad)

checkCollCircFirstWall(g, theX, theY, theRad) ==
    circScanFirstWall(g, 0, 0, theX, theY, theRad)

\* World.checkCollCirc(theX, theY, theRad)
checkCollCirc(g, theX, theY, theRad) == circScan(g, 0, 0, theX, theY, theRad)

-----------------------------------------------------------------------------
(* Ray *)

\* The headings of the model.  theta = 0:
East == [dx |-> 1, dy |-> 0, sc |-> 1, ss |-> 0, zero |-> TRUE]

\* theta = Math.PI / 2: cos = 6.1e-17 > 0, tan = 1.6e16
South == [dx |-> 0, dy |-> 1, sc |-> 1, ss |-> 1, zero |-> FALSE]

\* theta = Math.PI: sin = 1.2e-16 > 0, tan = -1.2e-16
West == [dx |-> -1, dy |-> 0, sc |-> -1, ss |-> 1, zero |-> FALSE]

\* theta = 3 * Math.PI / 2: cos = -1.8e-16 < 0, tan = 5.4e15
North == [dx |-> 0, dy |-> -1, sc |-> -1, ss |-> -1, zero |-> FALSE]

\* A heading that is not axis-aligned, of tangent dy / dx
Diagonal(dx, dy) ==
    [dx |-> dx, dy |-> dy, sc |-> Sign(dx), ss |-> Sign(dy), zero |-> FALSE]

AxisHeadings == {East, South, West, North}

Headings ==
    AxisHeadings \cup
    {Diagonal(dx, dy) : dx \in {-2, -1, 1, 2}, dy \in {-1, 1}} \cup
    {Diagonal(dx, dy) : dx \in {-1, 1}, dy \in {-2, 2}}

\* a / b for b # 0 (the quotients the model takes are exact)
Div(a, b) == IF b < 0 THEN (-a) \div (-b) ELSE a \div b

\* A length the doubles give as Infinity or as some 1e15 tiles
Infinity == 1000 * Scale

\* Math.hypot(ax, ay) for a piece (ax, ay) of the ray.  Every piece of one ray
\* is parallel to its direction d = (dx, dy), so its length is
\* (|ax| + |ay|) * |d|_2 / |d|_1: the model keeps |ax| + |ay| and converts
\* where a length meets this._dist.
Hypot(ax, ay) == Abs(ax) + Abs(ay)

\* distance > this._dist, in place of distance >= this._dist
distReachedLate(distance, theTheta, theDist) ==
    LET n == theTheta.dx * theTheta.dx + theTheta.dy * theTheta.dy
        l == Abs(theTheta.dx) + Abs(theTheta.dy)
    IN  Lt3(Sq3(theDist * Scale * l, 1), Sq3(distance, n))

\* distance >= this._dist, for a distance kept as above and a dist in tiles:
\* distance * |d|_2 >= dist * |d|_1, squared
distReached(distance, theTheta, theDist) ==
    LET n == theTheta.dx * theTheta.dx + theTheta.dy * theTheta.dy
        l == Abs(theTheta.dx) + Abs(theTheta.dy)
    IN  ~Lt3(Sq3(distance, n), Sq3(theDist * Scale * l, 1))

\* nearestGrid rounding against the direction of travel: floor where the
\* cosine (sine) is not negative and ceil where it is
nearestGridBackward(theX, theY, theTheta, theYSnap) ==
    LET dx == theTheta.dx
        dy == theTheta.dy
        bn == theY * dx - dy * theX
    IN  IF theYSnap
        THEN LET rv_y == IF IsInteger(theY) THEN theY + theTheta.ss * Scale
                         ELSE IF theTheta.ss < 0 THEN Ceil(theY) ELSE Floor(theY)
             IN  IF ~IsInteger(theY) \/ ~theTheta.zero
                 THEN IF dy = 0
                      THEN [x |-> theX, y |-> rv_y, far |-> TRUE]
                      ELSE [x |-> Div(rv_y * dx - bn, dy), y |-> rv_y, far |-> FALSE]
                 ELSE [x |-> theX, y |-> rv_y, far |-> FALSE]
        ELSE LET rv_x == IF IsInteger(theX) THEN theX + theTheta.sc * Scale
                         ELSE IF theTheta.sc < 0 THEN Ceil(theX) ELSE Floor(theX)
             IN  IF dx = 0
                 THEN [x |-> rv_x, y |-> theY, far |-> TRUE]
                 ELSE [x |-> rv_x, y |-> Div(dy * rv_x + bn, dx), far |-> FALSE]

\* nearestGrid that stays on the grid line the tip is on, in place of
\* stepping one unit in the sign of the cosine (sine)
nearestGridStuck(theX, theY, theTheta, theYSnap) ==
    LET dx == theTheta.dx
        dy == theTheta.dy
        bn == theY * dx - dy * theX
    IN  IF theYSnap
        THEN LET rv_y == IF IsInteger(theY) THEN theY
                         ELSE IF theTheta.ss < 0 THEN Floor(theY) ELSE Ceil(theY)
             IN  IF ~IsInteger(theY) \/ ~theTheta.zero
                 THEN IF dy = 0
                      THEN [x |-> theX, y |-> rv_y, far |-> TRUE]
                      ELSE [x |-> Div(rv_y * dx - bn, dy), y |-> rv_y, far |-> FALSE]
                 ELSE [x |-> theX, y |-> rv_y, far |-> FALSE]
        ELSE LET rv_x == IF IsInteger(theX) THEN theX
                         ELSE IF theTheta.sc < 0 THEN Floor(theX) ELSE Ceil(theX)
             IN  IF dx = 0
                 THEN [x |-> rv_x, y |-> theY, far |-> TRUE]
                 ELSE [x |-> rv_x, y |-> Div(dy * rv_x + bn, dx), far |-> FALSE]

\* Ray.nearestGrid(theX, theY, theTheta, theYSnap): [x, y, far], where far
\* says that the coordinate solved for is Infinity or some 1e15 tiles away.
\* b is kept as bn / dx.
nearestGrid(theX, theY, theTheta, theYSnap) ==
    LET dx == theTheta.dx
        dy == theTheta.dy
        bn == theY * dx - dy * theX
    IN  IF theYSnap
        THEN LET rv_y == IF IsInteger(theY) THEN theY + theTheta.ss * Scale
                         ELSE IF theTheta.ss < 0 THEN Floor(theY) ELSE Ceil(theY)
             IN  IF ~IsInteger(theY) \/ ~theTheta.zero
                 THEN IF dy = 0
                      THEN [x |-> theX, y |-> rv_y, far |-> TRUE]
                      ELSE [x |-> Div(rv_y * dx - bn, dy), y |-> rv_y, far |-> FALSE]
                 ELSE [x |-> theX, y |-> rv_y, far |-> FALSE]
        ELSE LET rv_x == IF IsInteger(theX) THEN theX + theTheta.sc * Scale
                         ELSE IF theTheta.sc < 0 THEN Floor(theX) ELSE Ceil(theX)
             IN  IF dx = 0
                 THEN [x |-> rv_x, y |-> theY, far |-> TRUE]
                 ELSE [x |-> rv_x, y |-> Div(dy * rv_x + bn, dx), far |-> FALSE]

\* determineFace with the faces 1 and 3 of a horizontal grid line exchanged
determineFaceFlipped(g, theX, theY, theSignCos, theSignSin) ==
    IF IsInteger(theX) /\ IsInteger(theY)
    THEN IF checkCollision(g, theX, theY)
         THEN IF checkCollision(g, theX - Scale, theY) THEN 3 ELSE 2
         ELSE IF checkCollision(g, theX - Scale, theY) THEN 0 ELSE 1
    ELSE IF IsInteger(theX)
    THEN IF theSignCos = -1 THEN 0 ELSE 2
    ELSE IF IsInteger(theY)
    THEN IF theSignSin = -1 THEN 3 ELSE 1
    ELSE 0

\* determineFace with the faces numbered from 1
determineFaceFromOne(g, theX, theY, theSignCos, theSignSin) ==
    IF IsInteger(theX) /\ IsInteger(theY)
    THEN IF checkCollision(g, theX, theY)
         THEN IF checkCollision(g, theX - Scale, theY) THEN 4 ELSE 3
         ELSE IF checkCollision(g, theX - Scale, theY) THEN 1 ELSE 2
    ELSE IF IsInteger(theX)
    THEN IF theSignCos = -1 THEN 1 ELSE 3
    ELSE IF IsInteger(theY)
    THEN IF theSignSin = -1 THEN 2 ELSE 4
    ELSE 1

\* determineFace with the faces 0 and 2 of a vertical grid line exchanged
determineFaceMirrored(g, theX, theY, theSignCos, theSignSin) ==
    IF IsInteger(theX) /\ IsInteger(theY)
    THEN IF checkCollision(g, theX, theY)
         THEN IF checkCollision(g, theX - Scale, theY) THEN 3 ELSE 2
         ELSE IF checkCollision(g, theX - Scale, theY) THEN 0 ELSE 1
    ELSE IF IsInteger(theX)
    THEN IF theSignCos = -1 THEN 2 ELSE 0
    ELSE IF IsInteger(theY)
    THEN IF theSignSin = -1 THEN 1 ELSE 3
    ELSE 0

\* Ray.determineFace(theX, theY, theSignCos, theSignSin)
determineFace(g, theX, theY, theSignCos, theSignSin) ==
    IF IsInteger(theX) /\ IsInteger(theY)
    THEN IF checkCollision(g, theX, theY)
         THEN IF checkCollision(g, theX - Scale, theY) THEN 3 ELSE 2
         ELSE IF checkCollision(g, theX - Scale, theY) THEN 0 ELSE 1
    ELSE IF IsInteger(theX)
    THEN IF theSignCos = -1 THEN 0 ELSE 2
    ELSE IF IsInteger(theY)
    THEN IF theSignSin = -1 THEN 1 ELSE 3
    ELSE 0

\* The locals of Ray.seekCollision on entry to its loop
seekStart(r) ==
    [rv_x |-> Null, rv_y |-> Null, rv_face |-> Null,
     short_flag |-> TRUE, collide_flag |-> FALSE,
     tip_x |-> r.x, tip_y |-> r.y, distance |-> 0, passes |-> 0]

\* One pass that tests the tile at the floor of the tip, the tile the ray
\* leaves when it travels in the negative direction
seekPassLeaving(g, r, st) ==
    LET x_near == nearestGrid(st.tip_x, st.tip_y, r.theta, FALSE)
        y_near == nearestGrid(st.tip_x, st.tip_y, r.theta, TRUE)
        x_dist == IF x_near.far THEN Infinity
                  ELSE Hypot(st.tip_x - x_near.x, st.tip_y - x_near.y)
        y_dist == IF y_near.far THEN Infinity
                  ELSE Hypot(st.tip_x - y_near.x, st.tip_y - y_near.y)
        xFirst == y_dist = 0 \/ x_dist < y_dist
        tip_x == IF xFirst THEN x_near.x ELSE y_near.x
        tip_y == IF xFirst THEN x_near.y ELSE y_near.y
        distance == st.distance + (IF xFirst THEN x_dist ELSE y_dist)
        moved == [st EXCEPT !.tip_x = tip_x, !.tip_y = tip_y,
                            !.distance = distance, !.passes = @ + 1]
    IN  IF distReached(distance, r.theta, r.dist)
        THEN [moved EXCEPT !.short_flag = FALSE]
        ELSE IF checkCollision(g, Floor(tip_x), Floor(tip_y))
        THEN [moved EXCEPT !.rv_x = Some(tip_x), !.rv_y = Some(tip_y),
                           !.rv_face = Some(determineFace(g, tip_x, tip_y,
                                                          r.theta.sc, r.theta.ss)),
                           !.collide_flag = TRUE]
        ELSE moved

\* One pass of the body of Ray.seekCollision's loop
seekPass(g, r, st) ==
    LET x_near == nearestGrid(st.tip_x, st.tip_y, r.theta, FALSE)
        y_near == nearestGrid(st.tip_x, st.tip_y, r.theta, TRUE)
        x_dist == IF x_near.far THEN Infinity
                  ELSE Hypot(st.tip_x - x_near.x, st.tip_y - x_near.y)
        y_dist == IF y_near.far THEN Infinity
                  ELSE Hypot(st.tip_x - y_near.x, st.tip_y - y_near.y)
        xFirst == y_dist = 0 \/ x_dist < y_dist
        tip_x == IF xFirst THEN x_near.x ELSE y_near.x
        tip_y == IF xFirst THEN x_near.y ELSE y_near.y
        distance == st.distance + (IF xFirst THEN x_dist ELSE y_dist)
        test_x == IF r.theta.sc = -1 THEN Ceil(tip_x - Scale) ELSE Floor(tip_x)
        test_y == IF r.theta.ss = -1 THEN Ceil(tip_y - Scale) ELSE Floor(tip_y)
        moved == [st EXCEPT !.tip_x = tip_x, !.tip_y = tip_y,
                            !.distance = distance, !.passes = @ + 1]
    IN  IF distReached(distance, r.theta, r.dist)
        THEN [moved EXCEPT !.short_flag = FALSE]
        ELSE IF checkCollision(g, test_x, test_y)
        THEN [moved EXCEPT !.rv_x = Some(tip_x), !.rv_y = Some(tip_y),
                           !.rv_face = Some(determineFace(g, tip_x, tip_y,
                                                          r.theta.sc, r.theta.ss)),
                           !.collide_flag = TRUE]
        ELSE moved

\* Ray.seekCollision's loop, from the locals st to the locals at its exit
RECURSIVE seekLoop(_, _, _)
seekLoop(g, r, st) ==
    IF st.short_flag /\ ~st.collide_flag
    THEN seekLoop(g, r, seekPass(g, r, st))
    ELSE st

\* Ray.seekCollision(): the locals at the return; it returns
\* [rv_x, rv_y, rv_face]
seekCollision(g, r) == seekLoop(g, r, seekStart(r))

-----------------------------------------------------------------------------
(* Camera *)

\* const SLIDE = 0.0001
SLIDE == Scale \div 10000

\* A bounding radius of a tenth of a tile
BOUND_SIZE_Tenth == Scale \div 10

\* const BOUND_SIZE = 0.20
BOUND_SIZE == Scale \div 5

\* Camera.move is not running
mvIdle ==
    [pc |-> "idle", kind |-> "none", fromX |-> 0, fromY |-> 0,
     theX |-> 0, theY |-> 0, t_x |-> 0, t_y |-> 0,
     x_flag |-> FALSE, y_flag |-> FALSE, passes |-> 0]

\* Setters that move the camera's ray and leave the scanning ray behind
setPosCamOnly(x, y) ==
    /\ cam' = [x |-> x, y |-> y]
    /\ draw' = draw

\* Camera's set x and set y: both rays are moved
setPos(x, y) ==
    /\ cam' = [x |-> x, y |-> y]
    /\ draw' = [x |-> x, y |-> y]

\* Camera.move that slides towards every target, free or not
moveCallSliding(theX, theY) ==
    /\ mv.pc = "idle"
    /\ moves' = moves + 1
    /\ mv' = [pc |-> "slide", kind |-> "slide",
              fromX |-> cam.x, fromY |-> cam.y,
              theX |-> theX, theY |-> theY, t_x |-> 0, t_y |-> 0,
              x_flag |-> TRUE, y_flag |-> TRUE, passes |-> 0]
    /\ UNCHANGED <<cam, draw>>
    /\ UNCHANGED <<source, built, tilemap, ray, castOut, query, frame>>

\* Camera.move(theX, theY) up to its loop: the free target is taken at once,
\* the blocked one enters the sliding loop.  fromX, fromY and kind record the
\* call for the properties.
moveBody(theX, theY) ==
    /\ mv.pc = "idle"
    /\ moves' = moves + 1
    /\ IF checkCollCirc(tilemap, cam.x + theX, cam.y + theY, BOUND_SIZE)
       THEN /\ mv' = [pc |-> "slide", kind |-> "slide",
                      fromX |-> cam.x, fromY |-> cam.y,
                      theX |-> theX, theY |-> theY, t_x |-> 0, t_y |-> 0,
                      x_flag |-> TRUE, y_flag |-> TRUE, passes |-> 0]
            /\ UNCHANGED <<cam, draw>>
       ELSE /\ mv' = [mvIdle EXCEPT !.kind = "direct",
                                    !.fromX = cam.x, !.fromY = cam.y,
                                    !.theX = theX, !.theY = theY]
            /\ setPos(cam.x + theX, cam.y + theY)

\* Camera.move(theX, theY) with numbers, up to its loop
moveCall(theX, theY) ==
    /\ moveBody(theX, theY)
    /\ UNCHANGED <<source, built, tilemap, ray, castOut, query, frame>>

\* A pass of the sliding loop that tests the step on y beside the x offset
\* of the pass before
slideBodyStaleX(g, x, y, m) ==
    LET u == SLIDE * Sign(m.theX)
        v == SLIDE * Sign(m.theY)
        xOk == /\ u # 0
               /\ Abs(m.t_x + u) <= Abs(m.theX)
               /\ ~checkCollCirc(g, x + m.t_x + u, y + m.t_y, BOUND_SIZE)
        t_x == IF xOk THEN m.t_x + u ELSE m.t_x
        yOk == /\ v # 0
               /\ Abs(m.t_y + v) <= Abs(m.theY)
               /\ ~checkCollCirc(g, x + m.t_x, y + m.t_y + v, BOUND_SIZE)
        t_y == IF yOk THEN m.t_y + v ELSE m.t_y
    IN  [m EXCEPT !.t_x = t_x, !.t_y = t_y,
                  !.x_flag = IF xOk THEN @ ELSE FALSE,
                  !.y_flag = IF yOk THEN @ ELSE FALSE,
                  !.passes = @ + 1]

\* A pass of the sliding loop that does not compare the offsets with the
\* displacement asked for
slideBodyUnbounded(g, x, y, m) ==
    LET u == SLIDE * Sign(m.theX)
        v == SLIDE * Sign(m.theY)
        xOk == /\ u # 0
               /\ ~checkCollCirc(g, x + m.t_x + u, y + m.t_y, BOUND_SIZE)
        t_x == IF xOk THEN m.t_x + u ELSE m.t_x
        yOk == /\ v # 0
               /\ ~checkCollCirc(g, x + t_x, y + m.t_y + v, BOUND_SIZE)
        t_y == IF yOk THEN m.t_y + v ELSE m.t_y
    IN  [m EXCEPT !.t_x = t_x, !.t_y = t_y,
                  !.x_flag = IF xOk THEN @ ELSE FALSE,
                  !.y_flag = IF yOk THEN @ ELSE FALSE,
                  !.passes = @ + 1]

\* The locals of Camera.move after one pass of its sliding loop
slideBody(g, x, y, m) ==
    LET u == SLIDE * Sign(m.theX)
        v == SLIDE * Sign(m.theY)
        xOk == /\ u # 0
               /\ Abs(m.t_x + u) <= Abs(m.theX)
               /\ ~checkCollCirc(g, x + m.t_x + u, y + m.t_y, BOUND_SIZE)
        t_x == IF xOk THEN m.t_x + u ELSE m.t_x
        yOk == /\ v # 0
               /\ Abs(m.t_y + v) <= Abs(m.theY)
               /\ ~checkCollCirc(g, x + t_x, y + m.t_y + v, BOUND_SIZE)
        t_y == IF yOk THEN m.t_y + v ELSE m.t_y
    IN  [m EXCEPT !.t_x = t_x, !.t_y = t_y,
                  !.x_flag = IF xOk THEN @ ELSE FALSE,
                  !.y_flag = IF yOk THEN @ ELSE FALSE,
                  !.passes = @ + 1]

\* One pass of the sliding loop of Camera.move
slidePass ==
    /\ mv.pc = "slide"
    /\ mv.x_flag \/ mv.y_flag
    /\ mv' = slideBody(tilemap, cam.x, cam.y, mv)
    /\ UNCHANGED <<source, built, tilemap, ray, castOut, query, cam, draw, moves, frame>>

\* The exit of the sliding loop: move to the position found
slideExit ==
    /\ mv.pc = "slide"
    /\ ~(mv.x_flag \/ mv.y_flag)
    /\ setPos(cam.x + mv.t_x, cam.y + mv.t_y)
    /\ mv' = [mv EXCEPT !.pc = "idle"]
    /\ UNCHANGED <<source, built, tilemap, ray, castOut, query, moves, frame>>

-----------------------------------------------------------------------------
(* Specifications *)

\* The rays a caller can build in the grid g: origins on the half-tile
\* lattice of the grid (its outer edge included) that are not in a wall
Dists == {1, 2, 5, 16}

Half == Scale \div 2

Origins(g) ==
    {p \in (0 .. 2 * Cols(g)) \X (0 .. 2 * Rows(g)) :
        ~checkCollision(g, p[1] * Half, p[2] * Half)}

Rays(g) ==
    {[x |-> p[1] * Half, y |-> p[2] * Half, theta |-> h, dist |-> d] :
        p \in Origins(g), h \in Headings, d \in Dists}

\* Where the camera starts: the middle of tile (1, 1), free in every room
StartPos == [x |-> Scale + Half, y |-> Scale + Half]

\* The World has been constructed from the grid g
worldBuilt(g) ==
    /\ source = ArrayArg(g)
    /\ built = Some([threw |-> FALSE, passed |-> ArrayArg(g)])

\* The keys of Camera._keymap
Arrows == {"ArrowLeft", "ArrowUp", "ArrowRight", "ArrowDown"}

\* The columns of the screen as the Camera is constructed (Camera._sw).
\* A column's angle depends on i / _sw alone: the model's screens are a
\* few columns wide and stand for every (_sw / 4)-th column of the
\* program's.
ScreenW == 4

\* Math.floor((FOV_MIN + FOV_MAX) / 2)
FovDefault == (60 + 90) \div 2

\* The Camera as constructed, between frames: no key held, both rays at the
\* heading the camera's ray was given.  The headings of a camera that
\* turns are counted in turns of one frame (ANGLE_DELTA * theDelta) from
\* there.  n counts the frames, start is the pose Camera.update was entered
\* with, casts the poses its calls of updateCanvas cast the columns from,
\* event the last key event handled since the last frame.
idleFrame ==
    [n |-> 0, pc |-> "idle", keymap |-> [k \in Arrows |-> FALSE],
     fov_d |-> FovDefault, sw |-> ScreenW,
     event |-> <<>>, theta |-> 0, drawTheta |-> [base |-> 0, col |-> -1],
     start |-> [x |-> StartPos.x, y |-> StartPos.y, theta |-> 0],
     casts |-> <<>>]

idleCamera ==
    /\ cam = StartPos
    /\ draw = StartPos
    /\ mv = mvIdle
    /\ moves = 0
    /\ frame = idleFrame

\* The Ray: a ray as constructed, and seekCollision
InitCast ==
    /\ tilemap \in Grids
    /\ worldBuilt(tilemap)
    /\ ray \in Rays(tilemap)
    /\ castOut = Null
    /\ query = Null
    /\ idleCamera

\* The calls of seekCollision made on one ray
MaxCasts == 2

\* A seekCollision that leaves the ray's origin at the tip it reached
castMovesOrigin ==
    /\ Len(castOut) < MaxCasts
    /\ LET ret == seekCollision(tilemap, ray) IN
        /\ castOut' = Append(castOut, [of |-> ray, ret |-> ret])
        /\ ray' = [ray EXCEPT !.x = ret.tip_x, !.y = ret.tip_y]
    /\ UNCHANGED <<source, built, tilemap, query, cam, draw, mv, moves, frame>>

\* A call of Ray.seekCollision; the ray it was made on is kept with the return
cast ==
    /\ Len(castOut) < MaxCasts
    /\ castOut' = Append(castOut, [of |-> ray, ret |-> seekCollision(tilemap, ray)])
    /\ UNCHANGED <<source, built, tilemap, ray, query, cam, draw, mv, moves, frame>>

NextCast == cast

SpecCast == InitCast /\ [][NextCast]_vars

\* The World: its queries.  Coordinates on the quarter-tile lattice from one
\* tile before the grid to one tile after it, and a bounding radius to
\* either side of every grid line
QueryCoords(n) ==
    {k * Quarter : k \in -4 .. 4 * (n + 1)} \cup
    {k * Scale + s * BOUND_SIZE : k \in 0 .. n, s \in {-1, 1}}

Radii == {0, BOUND_SIZE, Half}

InitWorld ==
    /\ tilemap \in Grids
    /\ worldBuilt(tilemap)
    /\ ray = [x |-> StartPos.x, y |-> StartPos.y, theta |-> East, dist |-> 16]
    /\ castOut = Null
    /\ query = Null
    /\ idleCamera

\* A call of World.checkCollision and of World.checkCollCirc
ask ==
    /\ query = Null
    /\ \E x \in QueryCoords(Cols(tilemap)), y \in QueryCoords(Rows(tilemap)),
          rad \in Radii :
          query' = Some([x |-> x, y |-> y, rad |-> rad,
                         point |-> checkCollision(tilemap, x, y),
                         circle |-> checkCollCirc(tilemap, x, y, rad)])
    /\ UNCHANGED <<source, built, tilemap, ray, castOut, cam, draw, mv, moves, frame>>

NextWorld == ask

SpecWorld == InitWorld /\ [][NextWorld]_vars

\* The Camera: calls of move
MaxMoves == 2

\* The displacements asked for: two tiles east (the scenario), half a tile
\* south-east, a quarter tile west and three quarters north, and a frame's
\* worth (1.5 tiles per second at 80 frames per second)
Disps ==
    { <<2 * Scale, 0>>, <<Half, Half>>,
      <<-Quarter, -3 * Quarter>>, <<-(3 * Scale) \div 160, (3 * Scale) \div 160>> }

MoveGrids == {GridRoom3, GridRoom5}

InitMove ==
    /\ tilemap \in MoveGrids
    /\ worldBuilt(tilemap)
    /\ ray = [x |-> StartPos.x, y |-> StartPos.y, theta |-> East, dist |-> 16]
    /\ castOut = Null
    /\ query = Null
    /\ idleCamera

move ==
    /\ moves < MaxMoves
    /\ \E d \in Disps : moveCall(d[1], d[2])

NextMove == move \/ slidePass \/ slideExit

SpecMove == InitMove /\ [][NextMove]_vars

-----------------------------------------------------------------------------
(* Properties of the World's queries, under SpecWorld *)

\* The tiles of the grid g, as <<row, column>>
Cells(g) == (0 .. Rows(g) - 1) \X (0 .. Cols(g) - 1)

WallCells(g) == {c \in Cells(g) : Tile(g, c[1], c[2]) = 1}

\* (x, y) is in the half-open square [j, j + 1) x [i, i + 1) of tile <<i, j>>
InCell(c, x, y) ==
    /\ c[2] * Scale <= x /\ x < (c[2] + 1) * Scale
    /\ c[1] * Scale <= y /\ y < (c[1] + 1) * Scale

\* (x, y) is outside [0, width) x [0, height)
OutsideGrid(g, x, y) ==
    x < 0 \/ y < 0 \/ x >= Cols(g) * Scale \/ y >= Rows(g) * Scale

\* C9: checkCollision is true exactly when floor(x) and floor(y) index a tile
\* of the grid and that tile is a wall; it is false everywhere outside
\* [0, width) x [0, height), negative coordinates above -1 included.
C9_PointBlocked ==
    query # Null =>
        LET q == query[1] IN
        /\ q.point <=> \E c \in WallCells(tilemap) : InCell(c, q.x, q.y)
        /\ OutsideGrid(tilemap, q.x, q.y) => ~q.point

\* A query of a point a quarter tile left of the grid, beside a wall tile
C9_Witness ==
    /\ query # Null
    /\ query[1].x = -Quarter
    /\ query[1].y = Half
    /\ Tile(tilemap, 0, 0) = 1
    /\ ~query[1].point

\* The four corners of tile c
Corners(c) ==
    {<<c[2] * Scale, c[1] * Scale>>, <<c[2] * Scale, (c[1] + 1) * Scale>>,
     <<(c[2] + 1) * Scale, c[1] * Scale>>, <<(c[2] + 1) * Scale, (c[1] + 1) * Scale>>}

\* The edge and corner cases of the overlap of a circle with tile c: the
\* centre is within the tile's x-span (y-span) and less than a radius from
\* the nearer edge, or less than a radius from a corner
NearEdgeOrCorner(c, x, y, rad) ==
    LET x1 == c[2] * Scale
        y1 == c[1] * Scale
        x2 == x1 + Scale
        y2 == y1 + Scale
        edgeY == IF Abs(y - y1) <= Abs(y - y2) THEN Abs(y - y1) ELSE Abs(y - y2)
        edgeX == IF Abs(x - x1) <= Abs(x - x2) THEN Abs(x - x1) ELSE Abs(x - x2)
    IN  \/ x1 <= x /\ x <= x2 /\ edgeY < rad
        \/ y1 <= y /\ y <= y2 /\ edgeX < rad
        \/ \E k \in Corners(c) : HypotLess(k[1] - x, k[2] - y, rad)

\* The centre is strictly inside tile c
StrictlyInside(c, x, y) ==
    /\ c[2] * Scale < x /\ x < (c[2] + 1) * Scale
    /\ c[1] * Scale < y /\ y < (c[1] + 1) * Scale

\* The centre is inside tile c or on its boundary
InsideOrOn(c, x, y) ==
    /\ c[2] * Scale <= x /\ x <= (c[2] + 1) * Scale
    /\ c[1] * Scale <= y /\ y <= (c[1] + 1) * Scale

-----------------------------------------------------------------------------
(* Properties of Camera.move, under SpecMove *)

\* Camera.move has returned
Moved == mv.pc = "idle" /\ mv.kind # "none"

\* The target of the last call of Camera.move was blocked
TargetBlocked ==
    checkCollCirc(tilemap, mv.fromX + mv.theX, mv.fromY + mv.theY, BOUND_SIZE)

\* C5: from a start whose bounding circle overlaps no wall, the bounding
\* circle overlaps no wall at the position every move returns, the move
\* direct or slid; both rays are at that position.
C5_NeverInWall ==
    mv.pc = "idle" =>
        /\ ~checkCollCirc(tilemap, cam.x, cam.y, BOUND_SIZE)
        /\ ~\E c \in WallCells(tilemap) :
                \/ InsideOrOn(c, cam.x, cam.y)
                \/ NearEdgeOrCorner(c, cam.x, cam.y, BOUND_SIZE)
        /\ draw = cam

\* A second move, slid, that ends against the pillar of the room of 5 x 5
\* tiles: its target was in the wall, it moved on both axes
C5_Witness ==
    /\ Moved
    /\ moves = 2
    /\ tilemap = GridRoom5
    /\ mv.kind = "slide"
    /\ mv.t_x # 0
    /\ mv.t_y # 0
    /\ TargetBlocked

\* C6: when the bounding circle is free at the target (x + dx, y + dy), move
\* returns exactly that position; the sliding loop is not entered.
C6_DirectMove ==
    (mv.kind # "none" /\ ~TargetBlocked) =>
        /\ mv.pc = "idle"
        /\ mv.kind = "direct"
        /\ mv.passes = 0
        /\ cam.x = mv.fromX + mv.theX
        /\ cam.y = mv.fromY + mv.theY

\* A direct move by a displacement that is no multiple of the sliding step
C6_Witness ==
    /\ Moved
    /\ ~TargetBlocked
    /\ mv.theX % SLIDE # 0
    /\ cam.x = mv.fromX + mv.theX
    /\ cam.y = mv.fromY + mv.theY

\* The offset t is between 0 and the displacement d
Between(t, d) == Sign(t) \in {0, Sign(d)} /\ Abs(t) <= Abs(d)

\* C7: every move returns the position it started from translated by an
\* offset that, on each axis, has the sign of the displacement asked for or
\* is 0, and is no larger than it: the whole displacement, a slid one or none.
C7_BetweenStartAndTarget ==
    /\ Moved =>
        /\ Between(cam.x - mv.fromX, mv.theX)
        /\ Between(cam.y - mv.fromY, mv.theY)
    /\ mv.pc = "slide" =>
        /\ Between(mv.t_x, mv.theX)
        /\ Between(mv.t_y, mv.theY)
        /\ cam.x = mv.fromX /\ cam.y = mv.fromY

\* A slid move that stopped short of the displacement on one axis and made
\* all of it on the other
C7_Witness ==
    /\ Moved
    /\ mv.kind = "slide"
    /\ cam.x - mv.fromX = mv.theX
    /\ mv.theX # 0
    /\ Abs(cam.y - mv.fromY) < Abs(mv.theY)

\* The scenario: in the room of 3 x 3 tiles, from (1.5, 1.5), by (2.0, 0)
Scenario8 ==
    /\ Moved
    /\ tilemap = GridRoom3
    /\ mv.fromX = Scale + Half /\ mv.fromY = Scale + Half
    /\ mv.theX = 2 * Scale /\ mv.theY = 0

\* C8: in the room of 3 x 3 tiles, the move from (1.5, 1.5) by (2.0, 0) with
\* the bounding radius 0.2 returns x at most 1.8 and y unchanged at 1.5.
C8_StopsBeforeWall ==
    Scenario8 =>
        /\ cam.x <= 2 * Scale - Scale \div 5
        /\ cam.y = Scale + Half

-----------------------------------------------------------------------------
(* Properties of Ray.seekCollision, under SpecCast *)

\* The ray of the call made and the locals at its return
CastRay == castOut[1].of

CastRet == castOut[1].ret

\* seekCollision has returned [x, y, face] (a hit) or [null, null, null]
Hit == castOut # Null /\ CastRet.collide_flag

Miss ==
    /\ castOut # Null
    /\ CastRet.rv_x = Null /\ CastRet.rv_y = Null /\ CastRet.rv_face = Null

Max(a, b) == IF a >= b THEN a ELSE b

Min(a, b) == IF a <= b THEN a ELSE b

\* The points of the ray r are (r.x, r.y) + (tau / 2) * (dx, dy), tau >= 0.
\* SpanLo and SpanHi bound the tau at which a coordinate that starts at o and
\* moves by d is between a and b; for d = 0 that is every tau or none, as o is
\* between a and b or not (closed: a and b included).
SpanLo(o, d, a, b, closed) ==
    IF d > 0 THEN Div(2 * (a - o), d)
    ELSE IF d < 0 THEN Div(2 * (b - o), d)
    ELSE IF (a < o /\ o < b) \/ (closed /\ a <= o /\ o <= b) THEN -Infinity
    ELSE Infinity

SpanHi(o, d, a, b, closed) ==
    IF d > 0 THEN Div(2 * (b - o), d)
    ELSE IF d < 0 THEN Div(2 * (a - o), d)
    ELSE IF (a < o /\ o < b) \/ (closed /\ a <= o /\ o <= b) THEN Infinity
    ELSE -Infinity

\* The least and the greatest tau, from 0 on, at which the ray r is in tile c
CellLo(r, c, closed) ==
    Max(0, Max(SpanLo(r.x, r.theta.dx, c[2] * Scale, (c[2] + 1) * Scale, closed),
               SpanLo(r.y, r.theta.dy, c[1] * Scale, (c[1] + 1) * Scale, closed)))

CellHi(r, c, closed) ==
    Min(SpanHi(r.x, r.theta.dx, c[2] * Scale, (c[2] + 1) * Scale, closed),
        SpanHi(r.y, r.theta.dy, c[1] * Scale, (c[1] + 1) * Scale, closed))

\* The tau of the point (x, y) of the ray r
TauOf(r, x, y) ==
    IF r.theta.dx # 0 THEN Div(2 * (x - r.x), r.theta.dx)
    ELSE Div(2 * (y - r.y), r.theta.dy)

\* (x, y) is a point of the ray r
OnRay(r, x, y) ==
    /\ (x - r.x) * r.theta.dy = (y - r.y) * r.theta.dx
    /\ TauOf(r, x, y) >= 0

\* The ray r is inside tile c somewhere before its point of parameter tau
InsideBefore(r, c, tau) == CellLo(r, c, FALSE) < Min(tau, CellHi(r, c, FALSE))

\* The ray r is in tile c, or along its boundary, just after its point of
\* parameter tau
EnteredAt(r, c, tau) == CellLo(r, c, TRUE) <= tau /\ tau < CellHi(r, c, TRUE)

\* The point of parameter tau of the ray r is less than r.dist from its
\* origin: tau / 2 * |(dx, dy)| < dist, squared, in quarter tiles
TauWithinDist(r, tau) ==
    LET q == tau \div Quarter
        n == r.theta.dx * r.theta.dx + r.theta.dy * r.theta.dy
    IN  q * q * n < (8 * r.dist) * (8 * r.dist)

\* The ray r touches tile c less than r.dist from its origin
Reaches(r, c) ==
    /\ CellLo(r, c, TRUE) <= CellHi(r, c, TRUE)
    /\ TauWithinDist(r, CellLo(r, c, TRUE))

\* The parameter of the point seekCollision returned
HitTau == TauOf(CastRay, CastRet.rv_x[1], CastRet.rv_y[1])

\* C1: whenever seekCollision returns a hit, origins on a grid line included,
\* the hit is the first wall along the ray: the tile entered at the point
\* returned is a wall, and the ray is inside no wall tile nearer the origin.
C1_FirstWall ==
    Hit =>
        /\ OnRay(CastRay, CastRet.rv_x[1], CastRet.rv_y[1])
        /\ \E c \in WallCells(tilemap) : EnteredAt(CastRay, c, HitTau)
        /\ ~\E c \in WallCells(tilemap) : InsideBefore(CastRay, c, HitTau)

\* C2: a ray that touches no wall tile less than its dist from its origin
\* gets [null, null, null]; every hit is returned with the distance
\* accumulated less than dist, at a point of the ray on a wall tile less than
\* dist from the origin; and once the distance accumulated reaches dist the
\* return is [null, null, null].
C2_MissBeyondReach ==
    castOut # Null =>
        /\ (~\E c \in WallCells(tilemap) : Reaches(CastRay, c)) => Miss
        /\ Hit =>
            /\ CastRet.short_flag
            /\ ~distReached(CastRet.distance, CastRay.theta, CastRay.dist)
            /\ OnRay(CastRay, CastRet.rv_x[1], CastRet.rv_y[1])
            /\ CastRet.distance = Hypot(CastRet.rv_x[1] - CastRay.x,
                                        CastRet.rv_y[1] - CastRay.y)
            /\ TauWithinDist(CastRay, HitTau)
            /\ \E c \in WallCells(tilemap) :
                  /\ CellLo(CastRay, c, TRUE) <= HitTau
                  /\ HitTau <= CellHi(CastRay, c, TRUE)
        /\ ~CastRet.short_flag =>
            /\ Miss
            /\ distReached(CastRet.distance, CastRay.theta, CastRay.dist)
        /\ CastRet.short_flag => Hit

\* A ray that left the grid through its open side and was given up at dist
C2_Witness ==
    /\ Miss
    /\ tilemap = GridOpen4
    /\ ~CastRet.short_flag
    /\ CastRet.passes > 1
    /\ OutsideGrid(tilemap, CastRet.tip_x, CastRet.tip_y)
    /\ CastRet.tip_x > CastRay.x

\* The scenario: the room of 3 x 3 tiles, from (1.5, 1.5), heading 0, dist 5
Scenario4 ==
    /\ castOut # Null
    /\ tilemap = GridRoom3
    /\ CastRay = [x |-> Scale + Half, y |-> Scale + Half, theta |-> East, dist |-> 5]

\* C4: in the room of 3 x 3 tiles the ray from (1.5, 1.5) of heading 0 and
\* dist 5 hits at (2.0, 1.5), on the face the room shows to the east-bound
\* ray, face 2.
C4_ScenarioEast ==
    Scenario4 =>
        /\ CastRet.rv_x = Some(2 * Scale)
        /\ CastRet.rv_y = Some(Scale + Half)
        /\ CastRet.rv_face = Some(2)

\* The scenario's call has returned a hit after one pass of the loop
C4_Witness == Scenario4 /\ Hit /\ CastRet.passes = 1

\* An axis-aligned ray runs along a lane of tiles: a row when it heads east
\* or west, a column when it heads south or north.  Along is the coordinate
\* that changes, Across the one that does not, Step the direction.
Horizontal(r) == r.theta.dy = 0

Along(r) == IF Horizontal(r) THEN r.x ELSE r.y

Across(r) == IF Horizontal(r) THEN r.y ELSE r.x

Step(r) == r.theta.dx + r.theta.dy

LaneLen(g, r) == IF Horizontal(r) THEN Cols(g) ELSE Rows(g)

\* The ray's lane is one of the grid's
LaneInGrid(g, r) ==
    /\ Across(r) >= 0
    /\ Across(r) < (IF Horizontal(r) THEN Rows(g) ELSE Cols(g)) * Scale

LaneTile(g, r, k) ==
    IF Horizontal(r) THEN Tile(g, Across(r) \div Scale, k)
    ELSE Tile(g, k, Across(r) \div Scale)

\* The face of the lane's tile k that looks at the oncoming ray, and how far
\* ahead of the origin it is
NearFace(r, k) == IF Step(r) = 1 THEN k * Scale ELSE (k + 1) * Scale

Ahead(r, k) == Step(r) * (NearFace(r, k) - Along(r))

\* The walls the ray r is fired directly at: the wall tiles of its lane whose
\* near face is ahead of the origin, or at it, with only empty tiles before
Targets(g, r) ==
    {k \in 0 .. LaneLen(g, r) - 1 :
        /\ LaneTile(g, r, k) = 1
        /\ Ahead(r, k) >= 0
        /\ \A j \in 0 .. LaneLen(g, r) - 1 :
              (Ahead(r, j) >= 0 /\ Ahead(r, j) < Ahead(r, k)) => LaneTile(g, r, j) # 1}

\* The face an axis-aligned heading approaches: 2 heading east, 3 south,
\* 0 west, 1 north
FaceApproached(h) ==
    IF h.dx = 1 THEN 2 ELSE IF h.dy = 1 THEN 3 ELSE IF h.dx = -1 THEN 0 ELSE 1

\* seekCollision returned the near face of the lane's tile k
HitsNearFace(r, k) ==
    /\ Hit
    /\ CastRet.rv_x = Some(IF Horizontal(r) THEN NearFace(r, k) ELSE r.x)
    /\ CastRet.rv_y = Some(IF Horizontal(r) THEN r.y ELSE NearFace(r, k))
    /\ CastRet.rv_face = Some(FaceApproached(r.theta))

\* An axis-aligned ray off the grid lines that run along it
AxisCast ==
    /\ castOut # Null
    /\ CastRay.theta \in AxisHeadings
    /\ ~IsInteger(Across(CastRay))
    /\ LaneInGrid(tilemap, CastRay)

\* C3: an axis-aligned ray fired directly at a wall whose near face is less
\* than dist ahead, with only empty tiles in between, hits at the near face,
\* the other coordinate the origin's, on the face the heading approaches.
C3_AxisAligned ==
    AxisCast =>
        \A k \in Targets(tilemap, CastRay) :
            Ahead(CastRay, k) < CastRay.dist * Scale => HitsNearFace(CastRay, k)

\* The same for the walls whose near face is ahead of the origin, not at it
C3_AxisAlignedAhead ==
    AxisCast =>
        \A k \in Targets(tilemap, CastRay) :
            (Ahead(CastRay, k) > 0 /\ Ahead(CastRay, k) < CastRay.dist * Scale)
                => HitsNearFace(CastRay, k)

-----------------------------------------------------------------------------
(* Further properties of the World's queries, under SpecWorld *)

\* How far v is from the nearest grid line
OffLine(v) == Min(v % Scale, Scale - (v % Scale))

\* (x, y) is within a quarter tile, on both axes, of a corner of the lattice
NearCorner(x, y) == OffLine(x) <= Quarter /\ OffLine(y) <= Quarter

-----------------------------------------------------------------------------
(* The World from its construction on: SpecBuild *)

\* An array with rows of two lengths
JaggedRows == << <<1, 1>>, <<1>> >>

BuildInputs ==
    {NullArg, NumberArg, ArrayArg(<<>>), ArrayArg(JaggedRows), ArrayArg(GridRoom3)}

InitBuild ==
    /\ source \in BuildInputs
    /\ built = Null
    /\ tilemap = <<>>
    /\ ray = [x |-> StartPos.x, y |-> StartPos.y, theta |-> East, dist |-> 16]
    /\ castOut = Null
    /\ query = Null
    /\ idleCamera

\* new World(source)
construct ==
    /\ built = Null
    /\ built' = Some([threw |-> World(source).threw, passed |-> source])
    /\ tilemap' = World(source).tilemap
    /\ UNCHANGED <<source, ray, castOut, query, cam, draw, mv, moves, frame>>

\* The elements the caller writes to, as <<row, column>> from 1
WriteCells == {<<1, 1>>, <<2, 2>>}

\* The caller of the constructor writes an element of the array it passed
callerWrites ==
    /\ built # Null
    /\ source = built[1].passed
    /\ \E c \in WriteCells :
          /\ c[1] \in DOMAIN source.rows
          /\ c[2] \in DOMAIN source.rows[c[1]]
          /\ source' = [source EXCEPT !.rows[c[1]][c[2]] = 1 - @]
          /\ tilemap' = IF Aliased /\ ~built[1].threw THEN source'.rows ELSE tilemap
    /\ UNCHANGED <<built, ray, castOut, query, cam, draw, mv, moves, frame>>

\* The constructor returned a grid with rows, all of one length
Rectangular(g) == \A i \in DOMAIN g : Len(g[i]) = Len(g[1])

Usable ==
    /\ built # Null
    /\ ~built[1].threw
    /\ tilemap # <<>>
    /\ tilemap[1] # <<>>
    /\ Rectangular(tilemap)

NextBuild ==
    \/ construct
    \/ callerWrites
    \/ (Usable /\ mv.pc = "idle" /\ castOut = Null /\ ask)
    \/ (Usable /\ mv.pc = "idle" /\ cast)
    \/ (Usable /\ moves = 0 /\ query = Null /\ castOut = Null /\ move)
    \/ slidePass
    \/ slideExit

SpecBuild == InitBuild /\ [][NextBuild]_vars

\* The rows passed are no rectangular, non-empty grid: null, no array, no
\* rows, or rows of different lengths
BadInput(a) ==
    \/ a.kind # "array"
    \/ a.rows = <<>>
    \/ ~Rectangular(a.rows)

\* C12: the World constructor throws, and leaves no grid, whenever its
\* input is null, is empty or has rows of different lengths; so every grid
\* constructed is rectangular and non-empty.
C12_RejectsBadInput ==
    built # Null =>
        /\ BadInput(built[1].passed) => (built[1].threw /\ tilemap = <<>>)
        /\ ~built[1].threw => (tilemap # <<>> /\ Rectangular(tilemap))

\* C13: once built, the grid is the array as it was passed, whatever calls
\* of checkCollision, checkCollCirc, seekCollision and move are made and
\* whatever the caller writes to its array afterwards; the answers of the
\* queries are the answers on the array as it was passed.
C13_GridImmutable ==
    (built # Null /\ ~built[1].threw) =>
        /\ tilemap = built[1].passed.rows
        /\ query # Null =>
              /\ query[1].point =
                    checkCollision(built[1].passed.rows, query[1].x, query[1].y)
              /\ query[1].circle =
                    checkCollCirc(built[1].passed.rows, query[1].x, query[1].y,
                                  query[1].rad)

\* The caller has written to its array; a move, a query and a cast followed
C13_Witness ==
    /\ Usable
    /\ source # built[1].passed
    /\ moves = 1
    /\ mv.pc = "idle"
    /\ query # Null
    /\ castOut # Null

-----------------------------------------------------------------------------
(* Further properties of Ray.seekCollision, under SpecCast *)

\* C14: every return of seekCollision is a hit, with both coordinates numbers
\* and the face one of 0, 1, 2, 3, or [null, null, null]; none has some
\* elements null and others not.
C14_HitOrMiss ==
    \A i \in DOMAIN castOut :
        LET ret == castOut[i].ret IN
        \/ /\ ret.collide_flag
           /\ ret.rv_x # Null /\ ret.rv_y # Null /\ ret.rv_face # Null
           /\ ret.rv_face[1] \in 0 .. 3
        \/ /\ ~ret.collide_flag
           /\ ret.rv_x = Null /\ ret.rv_y = Null /\ ret.rv_face = Null

\* A hit on face 3 and, on another ray, a return of [null, null, null] are
\* both reached; this is the hit
C14_Witness ==
    /\ Hit
    /\ CastRet.rv_face = Some(3)
    /\ CastRet.passes > 1

\* C15: seekCollision leaves the ray's origin, heading and dist and the grid
\* as they were, and a second call on the same ray returns what the first
\* returned.
C15_CastPure ==
    \A i \in DOMAIN castOut :
        /\ castOut[i].of = ray
        /\ castOut[i].ret = castOut[1].ret
        /\ tilemap = built[1].passed.rows

\* Two calls made on a ray that hits a wall after several passes
C15_Witness ==
    /\ Len(castOut) = 2
    /\ castOut[2].ret.collide_flag
    /\ castOut[2].ret.passes > 2

-----------------------------------------------------------------------------
(* The checks the operations make of their arguments: SpecArgs *)

\* An argument as JavaScript sees it: a number, a string that reads as a
\* number, or null; v is the number it is, or is coerced to
Num(v) == [type |-> "number", v |-> v]

Str(v) == [type |-> "string", v |-> v]

NullVal == [type |-> "null", v |-> 0]

ArgVals == {0, Quarter, Half, Scale + Half}

Args == {Num(v) : v \in ArgVals} \cup {Str(v) : v \in ArgVals} \cup {NullVal}

\* typeof a !== "number"
NotNumber(a) == a.type # "number"

\* What a call did: it threw, or it returned rv
Threw == [threw |-> TRUE, rv |-> <<>>]

Returned(v) == [threw |-> FALSE, rv |-> <<v>>]

\* World.checkCollision of any arguments
checkCollisionOf(g, ax, ay) ==
    IF NotNumber(ax) \/ NotNumber(ay) THEN Threw
    ELSE Returned(checkCollision(g, ax.v, ay.v))

\* World.checkCollCirc of any arguments: it makes no check, and its
\* comparisons and subtractions take a string or null for the number it
\* reads as
checkCollCircOf(g, ax, ay, ar) == Returned(checkCollCirc(g, ax.v, ay.v, ar.v))

\* Ray.determineFace of any coordinates
determineFaceOf(g, ax, ay, theSignCos, theSignSin) ==
    IF NotNumber(ax) \/ NotNumber(ay) THEN Threw
    ELSE Returned(determineFace(g, ax.v, ay.v, theSignCos, theSignSin))

\* The Ray constructor of any coordinates and angle, of a World or of null
RayOf(ax, ay, atheta, theWorld, theDist) ==
    IF ax.type = "null" \/ ay.type = "null" \/ atheta.type = "null"
       \/ theWorld = "null"
    THEN Threw
    ELSE IF NotNumber(ax) \/ NotNumber(ay) \/ NotNumber(atheta) THEN Threw
    ELSE IF theWorld # "World" THEN Threw
    ELSE Returned([x |-> ax.v, y |-> ay.v, theta |-> East, dist |-> theDist])

\* Camera.move of any displacement: whether it throws
moveThrows(ax, ay) ==
    \/ NotNumber(ax) \/ NotNumber(ay)
    \/ ax.type = "null" \/ ay.type = "null"

\* The ray of the camera before any call
FirstRay == [x |-> StartPos.x, y |-> StartPos.y, theta |-> East, dist |-> 16]

InitArgs ==
    /\ tilemap = GridRoom3
    /\ worldBuilt(tilemap)
    /\ ray = FirstRay
    /\ castOut = Null
    /\ query = Null
    /\ idleCamera

\* A call record: the operation, whether a coordinate, angle, displacement or
\* radius passed was no number or the world was null, and what the call did
Called(op, bad, out) == Some([op |-> op, bad |-> bad, out |-> out])

argPoint ==
    /\ query = Null
    /\ \E ax \in Args, ay \in Args :
          query' = Called("checkCollision", NotNumber(ax) \/ NotNumber(ay),
                          checkCollisionOf(tilemap, ax, ay))
    /\ UNCHANGED <<source, built, tilemap, ray, castOut, cam, draw, mv, moves, frame>>

argCircle ==
    /\ query = Null
    /\ \E ax \in Args, ay \in Args, ar \in Args :
          query' = Called("checkCollCirc",
                          NotNumber(ax) \/ NotNumber(ay) \/ NotNumber(ar),
                          checkCollCircOf(tilemap, ax, ay, ar))
    /\ UNCHANGED <<source, built, tilemap, ray, castOut, cam, draw, mv, moves, frame>>

argFace ==
    /\ query = Null
    /\ \E ax \in Args, ay \in Args, sc \in {-1, 1}, ss \in {-1, 0, 1} :
          query' = Called("determineFace", NotNumber(ax) \/ NotNumber(ay),
                          determineFaceOf(tilemap, ax, ay, sc, ss))
    /\ UNCHANGED <<source, built, tilemap, ray, castOut, cam, draw, mv, moves, frame>>

\* new Ray(...): the ray made replaces the one under test
argRay ==
    /\ query = Null
    /\ \E ax \in Args, ay \in Args, atheta \in Args, w \in {"World", "null"} :
          LET out == RayOf(ax, ay, atheta, w, 16) IN
          /\ query' = Called("Ray", NotNumber(ax) \/ NotNumber(ay)
                                    \/ NotNumber(atheta) \/ w = "null", out)
          /\ ray' = IF out.threw THEN ray ELSE out.rv[1]
    /\ UNCHANGED <<source, built, tilemap, castOut, cam, draw, mv, moves, frame>>

argMove ==
    /\ query = Null
    /\ \E ax \in Args, ay \in Args :
          IF moveThrows(ax, ay)
          THEN /\ query' = Called("move", TRUE, Threw)
               /\ UNCHANGED <<cam, draw, mv, moves>>
          ELSE /\ query' = Called("move", FALSE, Returned(TRUE))
               /\ moveBody(ax.v, ay.v)
    /\ UNCHANGED <<source, built, tilemap, ray, castOut, frame>>

NextArgs ==
    argPoint \/ argCircle \/ argFace \/ argRay \/ argMove \/ slidePass \/ slideExit

SpecArgs == InitArgs /\ [][NextArgs]_vars

\* C16: every operation given a coordinate, angle, displacement or radius
\* that is no number, or a null world, throws, and leaves the camera, its
\* rays and the grid as they were.
C16_BadArgumentsThrow ==
    (query # Null /\ query[1].bad) =>
        /\ query[1].out.threw
        /\ cam = StartPos /\ draw = StartPos /\ mv = mvIdle
        /\ ray = FirstRay
        /\ tilemap = built[1].passed.rows

\* The same of the operations other than checkCollCirc
C16_BadArgumentsThrowElsewhere ==
    (query # Null /\ query[1].bad /\ query[1].op # "checkCollCirc") =>
        /\ query[1].out.threw
        /\ cam = StartPos /\ draw = StartPos /\ mv = mvIdle
        /\ ray = FirstRay
        /\ tilemap = built[1].passed.rows

-----------------------------------------------------------------------------
(* Queries from outside the grid, under SpecWorld *)

\* (x, y) is outside the rectangle of the grid g, its border lines too
BeyondGrid(g, x, y) ==
    x < 0 \/ y < 0 \/ x > Cols(g) * Scale \/ y > Rows(g) * Scale

\* (x, y) is rad or more outside the rectangle of the grid g on some axis
ClearOfGrid(g, x, y, rad) ==
    \/ x <= -rad /\ x < 0
    \/ y <= -rad /\ y < 0
    \/ x >= Cols(g) * Scale + rad /\ x > Cols(g) * Scale
    \/ y >= Rows(g) * Scale + rad /\ y > Rows(g) * Scale

\* C17 as stated: checkCollision of a point, and checkCollCirc of a circle
\* centred, outside the grid return false, whatever the radius.
C17_OutsideNeverBlocked ==
    (query # Null /\ BeyondGrid(tilemap, query[1].x, query[1].y)) =>
        /\ ~query[1].point
        /\ ~query[1].circle

\* C17 as amended: outside the grid checkCollision returns false, and
\* checkCollCirc returns whether the circle overlaps a wall tile: false when
\* the centre is a radius or more outside the grid, true when it is less
\* than a radius from a wall tile of the border.
C17_OutsideByOverlap ==
    (query # Null /\ OutsideGrid(tilemap, query[1].x, query[1].y)) =>
        /\ ~query[1].point
        /\ ClearOfGrid(tilemap, query[1].x, query[1].y, query[1].rad)
              => ~query[1].circle
        /\ query[1].circle <=>
              \E c \in WallCells(tilemap) :
                  \/ InsideOrOn(c, query[1].x, query[1].y)
                  \/ NearEdgeOrCorner(c, query[1].x, query[1].y, query[1].rad)

\* A circle centred a quarter tile right of the room of 3 x 3 tiles, of
\* radius half a tile: it overlaps the border
C17_Witness ==
    /\ query # Null
    /\ tilemap = GridRoom3
    /\ query[1].x = 3 * Scale + Quarter
    /\ query[1].y = Scale + Half
    /\ query[1].rad = Half
    /\ ~query[1].point
    /\ query[1].circle

-----------------------------------------------------------------------------
(* The face returned, under SpecCast *)

\* The faces of a tile: 0 its +x side, 1 its +y side, 2 its -x side, 3 its
\* -y side
FaceEast == 0

FaceSouth == 1

FaceWest == 2

FaceNorth == 3

\* The point returned has only its x integral, only its y integral
HitOnVertical == Hit /\ IsInteger(CastRet.rv_x[1]) /\ ~IsInteger(CastRet.rv_y[1])

HitOnHorizontal == Hit /\ ~IsInteger(CastRet.rv_x[1]) /\ IsInteger(CastRet.rv_y[1])

\* C18 as stated: off the corners, with only x integral the face is the west
\* one if sign(cos) < 0 and the east one otherwise; with only y integral it
\* is the north one if sign(sin) < 0 and the south one otherwise.
C18_FaceWithHeading ==
    /\ HitOnVertical =>
          CastRet.rv_face[1] = IF CastRay.theta.sc < 0 THEN FaceWest ELSE FaceEast
    /\ HitOnHorizontal =>
          CastRet.rv_face[1] = IF CastRay.theta.ss < 0 THEN FaceNorth ELSE FaceSouth

\* C18 as amended: off the corners, with only x integral the face is the
\* east one (0) if sign(cos) < 0 and the west one (2) otherwise; with only y
\* integral it is the south one (1) if sign(sin) < 0 and the north one (3)
\* otherwise: the side of the tile that faces the origin of the ray.
C18_FaceAgainstHeading ==
    /\ HitOnVertical =>
          CastRet.rv_face[1] = IF CastRay.theta.sc < 0 THEN FaceEast ELSE FaceWest
    /\ HitOnHorizontal =>
          CastRet.rv_face[1] = IF CastRay.theta.ss < 0 THEN FaceSouth ELSE FaceNorth

\* A ray of negative sine, not axis-aligned, that hits a horizontal grid
\* line off the corners, on the south face of the tile above
C18_Witness ==
    /\ HitOnHorizontal
    /\ CastRay.theta.ss < 0
    /\ CastRay.theta.dx # 0
    /\ CastRet.rv_face = Some(FaceSouth)

-----------------------------------------------------------------------------
(* Ray.determineFace at the corners of the lattice: SpecFace *)

InitFace ==
    /\ tilemap \in Grids
    /\ worldBuilt(tilemap)
    /\ ray = FirstRay
    /\ castOut = Null
    /\ query = Null
    /\ idleCamera

\* A call of determineFace at the corner (i, j) of the lattice, for the signs
\* of a heading off the axes
faceAtCorner ==
    /\ query = Null
    /\ \E i \in 0 .. Cols(tilemap), j \in 0 .. Rows(tilemap),
          sc \in {-1, 1}, ss \in {-1, 1} :
          query' = Some([x |-> i * Scale, y |-> j * Scale, sc |-> sc, ss |-> ss,
                         face |-> determineFace(tilemap, i * Scale, j * Scale, sc, ss)])
    /\ UNCHANGED <<source, built, tilemap, ray, castOut, cam, draw, mv, moves, frame>>

NextFace == faceAtCorner

SpecFace == InitFace /\ [][NextFace]_vars

\* The tile a ray of signs (sc, ss) enters at the corner (x, y), and the
\* tile beside it across the vertical grid line through the corner
EnteredTile(x, y, sc, ss) ==
    [x |-> IF sc < 0 THEN x - Scale ELSE x, y |-> IF ss < 0 THEN y - Scale ELSE y]

BesideTile(x, y, sc, ss) ==
    [x |-> IF sc < 0 THEN x ELSE x - Scale, y |-> IF ss < 0 THEN y - Scale ELSE y]

\* C19: at a corner of the lattice where the tile entered is a wall,
\* determineFace returns an east or west face if the tile horizontally
\* beside it is a wall too and a north or south face otherwise, east from
\* west and north from south told by the signs of cos and sin.
C19_CornerFace ==
    query # Null =>
        LET q == query[1]
            e == EnteredTile(q.x, q.y, q.sc, q.ss)
            b == BesideTile(q.x, q.y, q.sc, q.ss)
        IN  checkCollision(tilemap, e.x, e.y) =>
                (q.face \in {FaceEast, FaceWest} <=> checkCollision(tilemap, b.x, b.y))

-----------------------------------------------------------------------------
(* The crossings of one cast, pass by pass *)

\* The locals of Ray.seekCollision at the start of each pass of its loop
RECURSIVE seekPasses(_, _, _)
seekPasses(g, r, st) ==
    IF st.short_flag /\ ~st.collide_flag
    THEN <<st>> \o seekPasses(g, r, seekPass(g, r, st))
    ELSE <<>>

\* The next x-crossing and the next y-crossing of the tip are equally far:
\* both exist and are the same point
TiedCrossings(r, st) ==
    LET x_near == nearestGrid(st.tip_x, st.tip_y, r.theta, FALSE)
        y_near == nearestGrid(st.tip_x, st.tip_y, r.theta, TRUE)
    IN  /\ ~x_near.far /\ ~y_near.far
        /\ Hypot(st.tip_x - x_near.x, st.tip_y - x_near.y)
             = Hypot(st.tip_x - y_near.x, st.tip_y - y_near.y)
        /\ Hypot(st.tip_x - y_near.x, st.tip_y - y_near.y) > 0

\* The ray travels along the grid line its tip c lies on (d is the component
\* of its direction across that line)
AlongLine(c, d) == d = 0 /\ IsInteger(c)

\* The tile coordinate a ray enters at c, travelling with component d
Entered(c, d) == IF d < 0 THEN Ceil(c) - Scale ELSE Floor(c)

-----------------------------------------------------------------------------
(* Ray.nearestGrid at the tips of one cast *)

\* The tips at which one cast calls nearestGrid
CastTips == seekPasses(tilemap, CastRay, seekStart(CastRay))

\* The point (px, py) is on the line of the ray through (tx, ty) and
\* strictly ahead of (tx, ty)
AheadOnLine(tx, ty, theTheta, px, py) ==
    /\ (py - ty) * theTheta.dx = (px - tx) * theTheta.dy
    /\ (px - tx) * theTheta.dx + (py - ty) * theTheta.dy > 0

\* The candidate coordinate from c: one unit in the sign s from a grid
\* line, and otherwise rounded down or up as toFloor says
Candidate(c, s, toFloor) ==
    IF IsInteger(c) THEN c + s * Scale ELSE IF toFloor THEN Floor(c) ELSE Ceil(c)

\* The candidates lie on the ray's line strictly ahead of the tip, wherever
\* the ray is not parallel to the grid lines asked for
CandidatesAhead(st) ==
    LET t == CastRay.theta
        x_near == nearestGrid(st.tip_x, st.tip_y, t, FALSE)
        y_near == nearestGrid(st.tip_x, st.tip_y, t, TRUE)
    IN  /\ t.dx # 0 => AheadOnLine(st.tip_x, st.tip_y, t, x_near.x, x_near.y)
        /\ t.dy # 0 => AheadOnLine(st.tip_x, st.tip_y, t, y_near.x, y_near.y)

\* C21 (as stated): the candidate x-crossing from a tip at x is
\* x + sign(cos) on a grid line and otherwise floor(x) if cos > 0 and ceil(x)
\* if cos < 0, the y-crossing likewise from y and sin, and every candidate
\* lies on the ray's line strictly ahead of the tip.
C21_FloorWithHeading ==
    castOut # Null =>
        \A i \in DOMAIN CastTips :
            LET st == CastTips[i]
                t == CastRay.theta
            IN  /\ nearestGrid(st.tip_x, st.tip_y, t, FALSE).x
                     = Candidate(st.tip_x, t.sc, t.sc > 0)
                /\ nearestGrid(st.tip_x, st.tip_y, t, TRUE).y
                     = Candidate(st.tip_y, t.ss, t.ss > 0)
                /\ CandidatesAhead(st)

\* C21 (amended): the candidate x-crossing from a tip at x is x + sign(cos)
\* on a grid line and otherwise floor(x) if cos < 0 and ceil(x) if not, the
\* y-crossing likewise from y and sin; for a ray that is not parallel to
\* the grid lines asked for, the candidate lies on the ray's line strictly
\* ahead of the tip.
C21_FloorAgainstHeading ==
    castOut # Null =>
        \A i \in DOMAIN CastTips :
            LET st == CastTips[i]
                t == CastRay.theta
            IN  /\ nearestGrid(st.tip_x, st.tip_y, t, FALSE).x
                     = Candidate(st.tip_x, t.sc, t.sc < 0)
                /\ nearestGrid(st.tip_x, st.tip_y, t, TRUE).y
                     = Candidate(st.tip_y, t.ss, t.ss < 0)
                /\ CandidatesAhead(st)

\* a ray travelling to the left and up from off the grid lines: its first
\* x-candidate is the floor of x, its first y-candidate the floor of y
C21_Witness ==
    /\ castOut # Null
    /\ CastRay.theta.dx < 0 /\ CastRay.theta.dy < 0
    /\ ~IsInteger(CastRay.x) /\ ~IsInteger(CastRay.y)
    /\ Len(CastTips) > 1
    /\ nearestGrid(CastRay.x, CastRay.y, CastRay.theta, FALSE).x = Floor(CastRay.x)
    /\ nearestGrid(CastRay.x, CastRay.y, CastRay.theta, TRUE).y = Floor(CastRay.y)

-----------------------------------------------------------------------------
(* Camera.move beside the pillar of the room of 5 x 5 tiles: SpecSlide *)

\* Where the camera stands: left of the pillar's west face, a quarter tile
\* off it and one step short of touching it
SlideStarts ==
    { [x |-> Scale + 3 * Quarter, y |-> 2 * Scale + Scale \div 10],
      [x |-> 2 * Scale - BOUND_SIZE - 1, y |-> 2 * Scale + Scale \div 10] }

\* The displacements asked for: into the pillar's top edge past its corner,
\* into the pillar along its west face, and a quarter tile back
SlideDisps ==
    { <<Scale, -BOUND_SIZE>>, <<Scale, BOUND_SIZE>>, <<-Quarter, 0>> }

InitSlide ==
    /\ tilemap = GridRoom5
    /\ worldBuilt(tilemap)
    /\ ray = [x |-> StartPos.x, y |-> StartPos.y, theta |-> East, dist |-> 16]
    /\ castOut = Null
    /\ query = Null
    /\ cam \in SlideStarts
    /\ draw = cam
    /\ mv = mvIdle
    /\ moves = 0
    /\ frame = idleFrame

\* One call of Camera.move
moveOnce ==
    /\ moves = 0
    /\ \E d \in SlideDisps : moveCall(d[1], d[2])

NextSlide == moveOnce \/ slidePass \/ slideExit

SpecSlide == InitSlide /\ [][NextSlide]_vars

-----------------------------------------------------------------------------
(* The flags of the sliding loop of Camera.move *)

\* C22: in the sliding loop an axis whose flag has been cleared keeps its
\* running offset until the move returns, whatever the other axis does, and
\* the loop ends exactly when both flags are cleared.
C22_InactiveAxisFrozen ==
    [][mv.pc = "slide" =>
          /\ ~mv.x_flag => mv'.t_x = mv.t_x
          /\ ~mv.y_flag => mv'.t_y = mv.t_y
          /\ mv'.pc = "idle" <=> ~(mv.x_flag \/ mv.y_flag)]_vars


\* The first step of the last call of Camera.move on x (on y) ran into a wall
FirstStepBlockedX ==
    /\ mv.theX # 0
    /\ checkCollCirc(tilemap, mv.fromX + SLIDE * Sign(mv.theX), mv.fromY, BOUND_SIZE)

FirstStepBlockedY ==
    /\ mv.theY # 0
    /\ checkCollCirc(tilemap, mv.fromX, mv.fromY + SLIDE * Sign(mv.theY), BOUND_SIZE)

\* The largest multiple of SLIDE that does not exceed the magnitude of d,
\* with the sign of d
FullSlide(d) == Sign(d) * SLIDE * (Abs(d) \div SLIDE)

\* C23: in a sliding move every offset accepted leaves the bounding circle
\* free; and if the first step on one axis is blocked while the other axis
\* advances unobstructed to the largest multiple of SLIDE within the
\* displacement asked for, the move returns the blocked axis at its original
\* coordinate.
C23_BlockedAxisKept ==
    /\ mv.pc = "slide" =>
           ~checkCollCirc(tilemap, mv.fromX + mv.t_x, mv.fromY + mv.t_y, BOUND_SIZE)
    /\ (Moved /\ mv.kind = "slide") =>
           /\ (FirstStepBlockedX /\ cam.y = mv.fromY + FullSlide(mv.theY)) =>
                  cam.x = mv.fromX
           /\ (FirstStepBlockedY /\ cam.x = mv.fromX + FullSlide(mv.theX)) =>
                  cam.y = mv.fromY

\* Along the straight west face of the pillar the blocked axis is kept: a
\* move into the pillar and down its face returns the original x
C23_AlongStraightWall ==
    (Moved /\ mv.kind = "slide" /\ FirstStepBlockedX /\ mv.theY > 0) =>
        cam.x = mv.fromX /\ cam.y = mv.fromY + FullSlide(mv.theY)

-----------------------------------------------------------------------------
(* Ray.seekCollision pass by pass: SpecSeek *)

\* The reaches of the rays cast pass by pass
SeekDists == {2, 16}

InitSeek ==
    /\ tilemap \in Grids
    /\ worldBuilt(tilemap)
    /\ ray \in {r \in Rays(tilemap) : r.dist \in SeekDists}
    /\ castOut = Null
    /\ query = Null
    /\ idleCamera

\* The loop of the call of seekCollision is still running
Seeking == castOut # Null /\ CastRet.short_flag /\ ~CastRet.collide_flag

\* The call of seekCollision, up to its loop
seekBegin ==
    /\ castOut = Null
    /\ castOut' = <<[of |-> ray, ret |-> seekStart(ray)]>>
    /\ UNCHANGED <<source, built, tilemap, ray, query, cam, draw, mv, moves, frame>>

\* One pass of the loop of seekCollision
seekStep ==
    /\ Seeking
    /\ castOut' = <<[of |-> ray, ret |-> seekPass(tilemap, ray, CastRet)]>>
    /\ UNCHANGED <<source, built, tilemap, ray, query, cam, draw, mv, moves, frame>>

NextSeek == seekBegin \/ seekStep

SpecSeek == InitSeek /\ [][NextSeek]_vars

\* The loop is plain sequential code: a pass that can run does run
SpecSeekFair == SpecSeek /\ WF_vars(NextSeek)

\* seekCollision has returned, a hit or a miss
Returned24 ==
    /\ castOut # Null
    /\ ~Seeking
    /\ \/ CastRet.collide_flag /\ CastRet.rv_x # Null /\ CastRet.rv_y # Null
       \/ ~CastRet.collide_flag /\ CastRet.rv_x = Null /\ CastRet.rv_y = Null

\* C24: every pass of seekCollision's loop moves the tip a strictly positive
\* distance further along the ray, and every call returns, a hit or a miss,
\* after finitely many passes; rays that leave the grid and axis-aligned
\* rays included.
C24_CastTerminates ==
    /\ [][Seeking => CastRet'.distance > CastRet.distance]_vars
    /\ <>Returned24

\* an axis-aligned ray has left the grid of open edges and returned a miss
\* after several passes
C24_Witness ==
    /\ Returned24
    /\ tilemap = GridOpen4
    /\ CastRay.theta \in AxisHeadings
    /\ ~CastRet.collide_flag
    /\ CastRet.passes > 3
    /\ OutsideGrid(tilemap, CastRet.tip_x, CastRet.tip_y)

-----------------------------------------------------------------------------
(* Termination of the sliding loop of Camera.move *)

\* Where the camera stands: beside the pillar's west face, one step, eleven
\* and twenty-one units short of touching it
ShortStarts ==
    { [x |-> 2 * Scale - BOUND_SIZE - k, y |-> 2 * Scale + Scale \div 10] :
        k \in {1, 11, 21} }

\* Displacements of some fifteen steps: into the pillar and up, the same by
\* a length that is no multiple of SLIDE, into the pillar and down, and away
ShortDisps ==
    { <<15 * SLIDE, -(15 * SLIDE)>>, <<15 * SLIDE + 1, -(15 * SLIDE + 1)>>,
      <<15 * SLIDE, 10 * SLIDE>>, <<-(15 * SLIDE), 0>> }

InitShort ==
    /\ tilemap = GridRoom5
    /\ worldBuilt(tilemap)
    /\ ray = [x |-> StartPos.x, y |-> StartPos.y, theta |-> East, dist |-> 16]
    /\ castOut = Null
    /\ query = Null
    /\ cam \in ShortStarts
    /\ draw = cam
    /\ mv = mvIdle
    /\ moves = 0
    /\ frame = idleFrame

\* One call of Camera.move with a short displacement
moveShort ==
    /\ moves = 0
    /\ \E d \in ShortDisps : moveCall(d[1], d[2])

NextShort == moveShort \/ slidePass \/ slideExit

\* The loop is plain sequential code: a pass or an exit that can run does run
SpecShortFair ==
    InitShort /\ [][NextShort]_vars /\ WF_vars(slidePass) /\ WF_vars(slideExit)

\* The steps accepted so far on an axis whose running offset is t
StepsTaken(t) == Abs(t) \div SLIDE

\* C25: the sliding loop of every call of move ends, and the steps accepted
\* on each axis never number more than the magnitude of the displacement on
\* that axis divided by SLIDE.
C25_SlideTerminates ==
    /\ [](mv.kind = "slide" =>
            /\ StepsTaken(mv.t_x) * SLIDE = Abs(mv.t_x)
            /\ StepsTaken(mv.t_y) * SLIDE = Abs(mv.t_y)
            /\ StepsTaken(mv.t_x) <= Abs(mv.theX) \div SLIDE
            /\ StepsTaken(mv.t_y) <= Abs(mv.theY) \div SLIDE)
    /\ (mv.pc = "slide") ~> (mv.pc = "idle")

\* a sliding move has returned after taking every step asked for on y and
\* fewer than asked for on x
C25_Witness ==
    /\ Moved /\ mv.kind = "slide"
    /\ StepsTaken(mv.t_y) = Abs(mv.theY) \div SLIDE
    /\ Abs(mv.theY) > StepsTaken(mv.t_y) * SLIDE
    /\ StepsTaken(mv.t_x) > 0
    /\ StepsTaken(mv.t_x) < Abs(mv.theX) \div SLIDE

-----------------------------------------------------------------------------
(* Key events and frames of the Camera: SpecFrame *)

\* The frames run
MaxFrames == 2

\* A key of the keyboard that is no key of Camera._keymap
OtherKey == "Escape"

\* theDelta is 0.29 / 1.5 s in every frame: the camera turns by
\* ANGLE_DELTA * theDelta = 43.5 degrees and moves POS_DELTA * theDelta =
\* 0.29 tile.  FrameDisp(k) is that length along the heading of k turns,
\* <<POS_DELTA * theDelta * cos, POS_DELTA * theDelta * sin>>, to the unit.
FrameDispRight(k) ==
    CASE k = 0 -> <<5800, 0>>
      [] k = 1 -> <<4207, 3992>>
      [] k = 2 -> <<304, 5792>>
      [] k = 3 -> <<-3767, 4410>>
      [] k = 4 -> <<-5768, 606>>

FrameDisp(k) ==
    IF k >= 0 THEN FrameDispRight(k)
    ELSE <<FrameDispRight(-k)[1], -FrameDispRight(-k)[2]>>

\* handleInput without the test of theEvent.key in this._keymap
handleInputAnyKey ==
    /\ frame.pc = "idle"
    /\ \E key \in Arrows \cup {OtherKey}, theBool \in BOOLEAN :
          frame' = [frame EXCEPT
                       !.keymap = [k \in DOMAIN @ \cup {key} |->
                                       IF k = key THEN theBool ELSE @[k]],
                       !.event = Some([key |-> key, down |-> theBool])]
    /\ UNCHANGED <<source, built, tilemap, ray, castOut, query, cam, draw, mv, moves>>

\* Camera.handleInput(theEvent, theBool)
handleInput ==
    /\ frame.pc = "idle"
    /\ \E key \in Arrows \cup {OtherKey}, theBool \in BOOLEAN :
          frame' = [frame EXCEPT
                       !.keymap = IF key \in DOMAIN @
                                  THEN [@ EXCEPT ![key] = theBool] ELSE @,
                       !.event = Some([key |-> key, down |-> theBool])]
    /\ UNCHANGED <<source, built, tilemap, ray, castOut, query, cam, draw, mv, moves>>

\* Camera.updateCanvas(), as far as the rays go: every column is cast from
\* the scanning ray, whose heading is set to the column's angle plus the
\* camera's heading; the scanning ray is left at the last column
updateCanvas(f) ==
    [f EXCEPT !.drawTheta = [base |-> f.theta, col |-> f.sw - 1],
              !.casts = Append(@, [x |-> draw.x, y |-> draw.y, theta |-> f.theta])]

\* Game.updateGame calls Camera.update(theDelta)
updateBegin ==
    /\ frame.pc = "idle"
    /\ frame.n < MaxFrames
    /\ frame' = [frame EXCEPT !.pc = "left", !.n = @ + 1, !.event = Null,
                              !.casts = <<>>,
                              !.start = [x |-> cam.x, y |-> cam.y, theta |-> frame.theta]]
    /\ UNCHANGED <<source, built, tilemap, ray, castOut, query, cam, draw, mv, moves>>

\* if (this._keymap["ArrowLeft"]) ...
updateLeft ==
    /\ frame.pc = "left"
    /\ frame' = IF frame.keymap["ArrowLeft"]
                THEN updateCanvas([frame EXCEPT !.theta = @ - 1, !.pc = "right"])
                ELSE [frame EXCEPT !.pc = "right"]
    /\ UNCHANGED <<source, built, tilemap, ray, castOut, query, cam, draw, mv, moves>>

\* if (this._keymap["ArrowRight"]) ...
updateRight ==
    /\ frame.pc = "right"
    /\ frame' = IF frame.keymap["ArrowRight"]
                THEN updateCanvas([frame EXCEPT !.theta = @ + 1, !.pc = "up"])
                ELSE [frame EXCEPT !.pc = "up"]
    /\ UNCHANGED <<source, built, tilemap, ray, castOut, query, cam, draw, mv, moves>>

\* if (this._keymap[key]) { this.move(x_comp, y_comp); ... for ArrowUp
\* (sign 1) and ArrowDown (sign -1): up to the return of move
updateMove(key, sign, at, moved, next) ==
    /\ frame.pc = at
    /\ IF frame.keymap[key]
       THEN /\ moveBody(sign * FrameDisp(frame.theta)[1],
                        sign * FrameDisp(frame.theta)[2])
            /\ frame' = [frame EXCEPT !.pc = moved]
       ELSE /\ frame' = [frame EXCEPT !.pc = next]
            /\ UNCHANGED <<cam, draw, mv, moves>>
    /\ UNCHANGED <<source, built, tilemap, ray, castOut, query>>

\* ... this.updateCanvas(); } once move has returned
updateMoved(moved, next) ==
    /\ frame.pc = moved
    /\ mv.pc = "idle"
    /\ frame' = updateCanvas([frame EXCEPT !.pc = next])
    /\ UNCHANGED <<source, built, tilemap, ray, castOut, query, cam, draw, mv, moves>>

updateUp == updateMove("ArrowUp", 1, "up", "upMoved", "down")

updateUpMoved == updateMoved("upMoved", "down")

updateDown == updateMove("ArrowDown", -1, "down", "downMoved", "idle")

updateDownMoved == updateMoved("downMoved", "idle")

InitFrame ==
    /\ tilemap = GridRoom3
    /\ worldBuilt(tilemap)
    /\ ray = [x |-> StartPos.x, y |-> StartPos.y, theta |-> East, dist |-> 16]
    /\ castOut = Null
    /\ query = Null
    /\ idleCamera

NextFrame ==
    \/ handleInput
    \/ updateBegin
    \/ updateLeft
    \/ updateRight
    \/ updateUp
    \/ updateUpMoved
    \/ updateDown
    \/ updateDownMoved
    \/ slidePass
    \/ slideExit

SpecFrame == InitFrame /\ [][NextFrame]_vars


\* Camera.update has returned from a frame
FrameDone == frame.pc = "idle" /\ frame.n > 0

\* The pose of the camera
Pose == [x |-> cam.x, y |-> cam.y, theta |-> frame.theta]

\* C26: in every frame the columns are cast only after the frame's heading
\* changes and its move have been applied: every cast of a frame is made
\* from the pose the frame ends with.
C26_CastsUseFinalPose ==
    FrameDone => \A i \in DOMAIN frame.casts : frame.casts[i] = Pose


\* The last element of a sequence that is not empty
Last(s) == s[Len(s)]

\* C27: the scanning ray's origin is the camera ray's position, at
\* construction and after every step of every move and frame; and a cast of
\* the columns leaves the camera's position and heading as they were,
\* changing only the scanning ray's heading, which it takes from the
\* camera's.
C27_RaysSynchronized ==
    /\ draw = cam
    /\ [][/\ draw' = cam'
          /\ Len(frame'.casts) > Len(frame.casts) =>
                /\ cam' = cam
                /\ Last(frame'.casts) = [x |-> cam.x, y |-> cam.y, theta |-> frame'.theta]
                /\ frame'.drawTheta.base = frame'.theta
          /\ frame'.drawTheta # frame.drawTheta =>
                Len(frame'.casts) > Len(frame.casts)]_vars

\* a frame that moved the camera by sliding has cast its columns from where
\* the camera came to rest
C27_Witness ==
    /\ FrameDone
    /\ mv.kind = "slide" /\ mv.passes > 5
    /\ cam # StartPos /\ draw = cam
    /\ frame.casts # <<>>
    /\ Last(frame.casts) = Pose
    /\ frame.drawTheta = [base |-> frame.theta, col |-> frame.sw - 1]

-----------------------------------------------------------------------------
(* The path of a move, under SpecMove *)

\* The eighths of the straight segment from the start of the last move to
\* its direct target
PathPoints ==
    {[x |-> mv.fromX + (k * mv.theX) \div 8, y |-> mv.fromY + (k * mv.theY) \div 8] :
        k \in 0 .. 8}

\* The segment passes through a wall tile
PathThroughWall == \E p \in PathPoints : checkCollision(tilemap, p.x, p.y)

\* C28: from a start whose bounding circle overlaps no wall, a move whose
\* straight segment to the direct target passes through a wall tile does
\* not return the direct target.
C28_NeverThroughWall ==
    (/\ Moved
     /\ ~checkCollCirc(tilemap, mv.fromX, mv.fromY, BOUND_SIZE)
     /\ PathThroughWall) =>
        ~(cam.x = mv.fromX + mv.theX /\ cam.y = mv.fromY + mv.theY)


\* The key k is held
Held(k) == frame.keymap[k]

\* C29: a key event of a key that is no arrow key changes nothing; an event
\* of an arrow key sets that key's held state to the event (down or up) and
\* no other key's, and nothing but key events changes a held state; a frame
\* with no arrow key held leaves position and heading as they were;
\* ArrowLeft and ArrowRight change the heading only, ArrowUp and ArrowDown
\* the position only.
C29_KeysAndFrames ==
    [][/\ (frame'.event # Null /\ frame'.event[1].key \notin Arrows) =>
              /\ [frame' EXCEPT !.event = frame.event] = frame
              /\ UNCHANGED <<cam, draw, mv, moves, ray, castOut, tilemap>>
       /\ (frame'.event # Null /\ frame'.event[1].key \in Arrows) =>
              /\ frame'.keymap[frame'.event[1].key] = frame'.event[1].down
              /\ \A k \in Arrows \ {frame'.event[1].key} :
                     frame'.keymap[k] = frame.keymap[k]
       /\ frame'.event = Null => frame'.keymap = frame.keymap
       /\ DOMAIN frame'.keymap = Arrows
       /\ (frame.pc # "idle" /\ frame'.pc = "idle") =>
              /\ (~Held("ArrowUp") /\ ~Held("ArrowDown")) =>
                     (cam'.x = frame'.start.x /\ cam'.y = frame'.start.y)
              /\ (~Held("ArrowLeft") /\ ~Held("ArrowRight")) =>
                     frame'.theta = frame'.start.theta
              /\ (Held("ArrowLeft") /\ ~Held("ArrowRight")) =>
                     frame'.theta = frame'.start.theta - 1
              /\ (~Held("ArrowLeft") /\ Held("ArrowRight")) =>
                     frame'.theta = frame'.start.theta + 1]_vars

\* the second frame, with ArrowUp alone held since before the first, has
\* moved the camera and kept its heading
C29_Witness ==
    /\ FrameDone /\ frame.n = 2
    /\ Held("ArrowUp") /\ ~Held("ArrowDown") /\ ~Held("ArrowLeft") /\ ~Held("ArrowRight")
    /\ cam.x > frame.start.x /\ frame.start.x > StartPos.x
    /\ frame.theta = 0


-----------------------------------------------------------------------------
(* The columns of one frame: Camera.updateCanvas *)

\* The fields of view (degrees) and screen widths the columns are taken for
Fovs == {60, 75, 90}

Widths == {4, 8}

\* Math.tan(fov_r / 2) in thousandths, fov_r = fov_d * Math.PI / 180
HalfTan(fov_d) ==
    CASE fov_d = 60 -> 577
      [] fov_d = 75 -> 767
      [] fov_d = 90 -> 1000

RECURSIVE GCD(_, _)
GCD(a, b) == IF b = 0 THEN a ELSE GCD(b, a % b)

\* An angle within a quarter turn of 0 is kept as its tangent num / den, in
\* lowest terms with den > 0: Math.atan is odd, strictly increasing and 0 at
\* 0, so angles compare as their tangents do.
Tangent(num, den) ==
    LET g == GCD(Abs(num), den) IN [num |-> num \div g, den |-> den \div g]

\* A column angle measured from column 0 instead of the screen's middle
columnAngleFromEdge(i, sw, fov_d) == Tangent(2 * i * HalfTan(fov_d), sw * 1000)

\* angle = Math.atan((i - 0.5 * this._sw) / (vp_disp * this._sw)) with
\* vp_disp = 1 / (2 * Math.tan(fov_r / 2))
columnAngle(i, sw, fov_d) == Tangent((2 * i - sw) * HalfTan(fov_d), sw * 1000)

\* angle + this._cam_ray.theta for an axis-aligned heading of the camera
turned(base, angle) ==
    IF angle.num = 0 THEN base
    ELSE Diagonal(angle.den * base.dx - angle.num * base.dy,
                  angle.den * base.dy + angle.num * base.dx)

\* A camera standing on the half-tile lattice, facing along an axis, with a
\* field of view and a screen width set; no column drawn yet.
InitColumns ==
    /\ tilemap \in Grids
    /\ worldBuilt(tilemap)
    /\ \E p \in Origins(tilemap), h \in AxisHeadings :
        /\ cam = [x |-> p[1] * Half, y |-> p[2] * Half]
        /\ ray = [x |-> cam.x, y |-> cam.y, theta |-> h, dist |-> 16]
    /\ draw = cam
    /\ \E f \in Fovs, w \in Widths :
        frame = [idleFrame EXCEPT !.fov_d = f, !.sw = w,
                                  !.start = [x |-> cam.x, y |-> cam.y, theta |-> 0]]
    /\ castOut = Null
    /\ query = Null
    /\ mv = mvIdle
    /\ moves = 0

\* One pass of updateCanvas's loop: the scanning ray is turned to column i
\* and cast.  The cast is computed for the headings whose crossings the
\* model's arithmetic gives exactly.
castColumn ==
    /\ Len(castOut) < frame.sw
    /\ LET i == Len(castOut)
           angle == columnAngle(i, frame.sw, frame.fov_d)
           r == [x |-> draw.x, y |-> draw.y,
                 theta |-> turned(ray.theta, angle), dist |-> 16]
       IN  /\ castOut' = Append(castOut,
                [col |-> i, angle |-> angle, of |-> r,
                 ret |-> IF r.theta \in Headings
                         THEN Some(seekCollision(tilemap, r)) ELSE Null])
           /\ frame' = [frame EXCEPT !.drawTheta = [base |-> frame.theta, col |-> i]]
    /\ UNCHANGED <<source, built, tilemap, ray, query, cam, draw, mv, moves>>

NextColumns == castColumn

SpecColumns == InitColumns /\ [][NextColumns]_vars

\* The column's cast found a wall
ColumnHit(c) == c.ret # Null /\ c.ret[1].collide_flag

\* The hit's offset from the scanning ray, in quarter tiles
HitOffset(c) ==
    [x |-> (c.ret[1].rv_x[1] - c.of.x) \div Quarter,
     y |-> (c.ret[1].rv_y[1] - c.of.y) \div Quarter]

\* (Math.cos(angle) * dist)^2 in quarter tiles, the distance line_height is
\* divided by: dist = Math.hypot of the hit's offset, cos^2 = 1 / (1 + tan^2)
wallDistSq(c) ==
    LET o == HitOffset(c) IN
    [num |-> (o.x * o.x + o.y * o.y) * c.angle.den * c.angle.den,
     den |-> c.angle.den * c.angle.den + c.angle.num * c.angle.num]

\* The hit's depth along the camera's heading, in quarter tiles
Depth(c) == HitOffset(c).x * ray.theta.dx + HitOffset(c).y * ray.theta.dy

\* C30: the heading of column i is the camera's heading turned by the angle
\* of tangent (i - W/2) * 2 * tan(fov/2) / W; the column at i = W/2 looks
\* exactly along the camera's heading, the column angles increase strictly
\* with i, every column angle lies within [-fov/2, +fov/2], and the distance
\* the wall height is computed from is the raw hit distance times the cosine
\* of the column angle, which is the hit's depth along the camera's heading.
C30_ColumnHeadings ==
    \A k \in DOMAIN castOut :
        LET c == castOut[k]
            h == c.of.theta
            along == h.dx * ray.theta.dx + h.dy * ray.theta.dy
            across == h.dy * ray.theta.dx - h.dx * ray.theta.dy
        IN  /\ c.col = k - 1
            /\ c.angle.den > 0
            /\ c.angle.num * frame.sw * 1000
                 = (2 * c.col - frame.sw) * HalfTan(frame.fov_d) * c.angle.den
            /\ along > 0 /\ across * c.angle.den = along * c.angle.num
            /\ (2 * c.col = frame.sw) => h = ray.theta
            /\ k > 1 => castOut[k - 1].angle.num * c.angle.den
                          < c.angle.num * castOut[k - 1].angle.den
            /\ Abs(c.angle.num) * 1000 <= HalfTan(frame.fov_d) * c.angle.den
            /\ ColumnHit(c) =>
                /\ Depth(c) > 0
                /\ wallDistSq(c).num = Depth(c) * Depth(c) * wallDistSq(c).den

\* A whole screen of columns was cast with a field of view of 90 degrees: the
\* middle column and a column to its side both found a wall.
C30_Witness ==
    /\ Len(castOut) = frame.sw
    /\ frame.fov_d = 90
    /\ ColumnHit(castOut[frame.sw \div 2 + 1])
    /\ \E k \in DOMAIN castOut :
        /\ ColumnHit(castOut[k]) /\ castOut[k].angle.num # 0
        /\ HitOffset(castOut[k]).x # 0 /\ HitOffset(castOut[k]).y # 0
=============================================================================
